---- MODULE Spec2Model ----
(***************************************************************************)
(* A model of the PANDORA control software (stubbslab/PANDORA):            *)
(*   - the run database (pandora/database/db.py),                          *)
(*   - the exposure sequencer of PandoraBox (pandora/pandora_controller.py)*)
(*   - the wavelength / order-block coupling (set_wavelength),             *)
(*   - the iOptron mount's goto_altaz (pandora/controller/ioptron.py),     *)
(*   - the calibration log (pandora/database/calib_db.py),                 *)
(*   - the run-id allocator (generate_new_run_id).                         *)
(* Each subsystem has its own specification; the variables of the other    *)
(* subsystems stay at their initial values in it.                          *)
(***************************************************************************)
EXTENDS Integers, Sequences, FiniteSets, TLC

VARIABLES
    \* ---- run database (PandoraDatabase) ----
    run_db,          \* the in-memory frame = the run CSV: a sequence of rows
    current_expid,   \* PandoraDatabase.current_expid
    fresh,           \* the run CSV was absent or empty when the database was opened
    run_csv,         \* the run CSV on disk: a sequence of rows of text cells
    current_exposure, \* PandoraDatabase.current_exposure, the staged dict
    stagedSince,     \* the columns staged with add() since the last write_exposure
    rowStaged,       \* for every row of run_db, the columns that were staged for it
    addResult,       \* outcome of the last add() call
    openLen,         \* Len(run_db) when the database was last opened
    \* ---- exposure sequencer (PandoraBox.take_exposure) ----
    stack,           \* the call stack of take_exposure invocations (innermost last)
    clock,           \* wall clock (datetime.now()), in exposure times
    shutterState,    \* ShutterState.state
    trace,           \* what the current request did so far: a sequence of events
    nAuto,           \* auto_scale calls of the current request, per electrometer
    nInv,            \* take_exposure invocations of the current request
    reqs,            \* requests started so far
    reqStartLen,     \* Len(run_db) when the current request started
    \* ---- wavelength / order-block flip mount (PandoraBox.set_wavelength) ----
    fmState,         \* flipOrderBlockFilter.state
    fmLine,          \* level of the flip mount's digital line (0 low, 1 high)
    pbWavelength,    \* PandoraBox.wavelength
    swResult,        \* outcome of the last set_wavelength call
    \* ---- telescope mount (IoptronController) ----
    mountParked,     \* the mount reports the state "Parked"
    mountAltLimit,   \* the altitude limit stored in the mount (:GAL#)
    mountTarget,     \* targets accepted by the mount: [alt, az], each <<>> or <<v>>
    mountPos,        \* the position of the mount
    mountCmds,       \* commands sent by the last goto_altaz call
    mountAcks,       \* what the mount answered to :Sa, :Sz and :MSS in that call
    gotoResult,      \* outcome of the last goto_altaz call
    \* ---- calibration log (PandoraCalibrationDatabase) ----
    calib_log,       \* the log: a sequence of rows
    calibNow,        \* the wall clock, in ticks of TicksPerSecond per second
    calibCall,       \* the last calibration-database call and its outcome
    \* ---- run-id cache (.run_cache.csv) ----
    cache,           \* the run ids recorded in the cache file, in file order
    allocated,       \* the run ids returned by generate_new_run_id, in order
    today,           \* the date string of the current day
    allocResult,     \* outcome of the last construction
    \* ---- rate-limited device objects (OperationTimer) ----
    dev,             \* the device object that is driven: "flip" or "shutter"
    powered,         \* the digital line of the device follows what is written
    now,             \* time.time(), in ticks of 100 ms
    tmLast,          \* timer.last_operation_time of the device
    cmdPrev,         \* time of the hardware command before the last one, or -1
    cmdLast,         \* time of the last hardware command of the device, or -1
    devCall,         \* the last call on the device and how it went
    \* ---- the devices PandoraBox owns, and close_all_connections ----
    flips,           \* state of each flip mount of flipMountNames[1:]
    shutterClosed,   \* the shutter blade is closed (its line was driven low)
    monoOpen,        \* the monochromator's serial port is open
    ksOpen,          \* per electrometer: the VISA connection is open
    ksInput,         \* per electrometer: the input is switched on (:INP ON)
    zaberOpen,       \* the connection of zaberNDFilter is open
    labjackOpen,     \* the LabJack handle is open
    closePc,         \* where close_all_connections is
    closeIdx,        \* index of the loop close_all_connections is in
    closeLog,        \* the close() calls close_all_connections made, in order
    \* ---- PandoraBox.wavelength_scan ----
    scanPc,          \* where wavelength_scan is
    scanArgs,        \* its arguments: start, number of wavelengths, nrepeats
    scanW,           \* index of the wavelength of the outer loop
    scanRep,         \* turn of the loop over range(nrepeats)
    scanStep,        \* which call of the loop body is next
    scanLog,         \* what wavelength_scan called so far, in order
    scanStartLen,    \* Len(run_db) when wavelength_scan was called
    chargePc,        \* where take_charge_exposure stands
    chargeArgs,      \* its arguments is_dark and warning
    chargeN,         \* number of samples of the last read_data
    chargeStatus,    \* how the last take_charge_exposure ended
    chargeStartLen,  \* Len(run_db) when take_charge_exposure was called
    chargeReqs,      \* number of take_charge_exposure requests so far
    zbConnected,     \* ZaberController._is_connected()
    zbStage,         \* where the ND-filter stage stands, in 1/100 mm
    zbPosition,      \* ZaberController.position, the cached slot
    zbCall,          \* the last call on the ND-filter stage and its outcome
    monoLambda,      \* wavelength_nm of the last move_to_wavelength, in 1/100 nm
    monoWire,        \* the two data bytes of the last GOTO command
    monoDecoded,     \* what the last get_wavelength decoded, in 1/100 nm
    monoPort,        \* the monochromator's serial port: "open" or "closed"
    monoOp,          \* the last monochromator operation and how it ended
    ksInstrument,    \* KeysightController.instrument: "open" or None
    ksDelivered,     \* the last message the electrometer received
    ksCall,          \* the last write()/read() of the electrometer, as it went
    ljPc,            \* where send_high_signal / send_low_signal stands
    ljArgs,          \* its port and the value it writes
    ljState,         \* LabJack.state
    ljLines,         \* the level of each digital line
    ljWrites,        \* ljm.eWriteName calls made by the current call
    ljResets,        \* reset() calls made by the current call
    ljStatus,        \* how the last send_*_signal call ended
    ljReadCall,      \* the last get_state() through LabJack.read, as it went
    asPc,            \* where auto_scale / auto_scale_charge stands
    asMode,          \* "CURR" for auto_scale, "CHAR" for auto_scale_charge
    asSignal,        \* |mean| of the constant signal, as [m, e]: m/10 * 10^e
    asIdx,           \* rang_idx, counted from 1
    asIter,          \* acquisitions made by the current call
    asSet,            \* the rung the instrument was last set to
    \* ---- PandoraBox.get_wavelength ----
    pbReturned,      \* the last get_wavelength call: its argument and the value it returned
    \* ---- the wavelengths of a scan (wavelength_scan, charge_wavelength_scan) ----
    gridPc,          \* "idle", "loop", "done" or "raised"
    gridArgs,        \* the scan's kind, start, end and step (1/100 nm)
    gridScan,        \* wavelengthScan: the array np.arange returned
    gridSeen,        \* the wavelengths given to set_wavelength in the loop so far
    \* ---- the shutter's digital line (PandoraBox.initialize_subsystems) ----
    slLine,          \* level of the line named by the 'flipShutter' port
    slShutter,       \* self.shutter.state
    slFlip,          \* self.flipShutter.state
    slCall           \* the last call on either object

dbVars    == <<run_db, current_expid, fresh, run_csv, current_exposure,
               stagedSince, rowStaged, addResult, openLen>>
expVars   == <<stack, clock, shutterState, trace, nAuto, nInv, reqs, reqStartLen>>
wavVars   == <<fmState, fmLine, pbWavelength, swResult>>
mountVars == <<mountParked, mountAltLimit, mountTarget, mountPos, mountCmds, mountAcks,
               gotoResult>>
calibVars == <<calib_log, calibNow, calibCall>>
cacheVars == <<cache, allocated, today, allocResult>>
timerVars == <<dev, powered, now, tmLast, cmdPrev, cmdLast, devCall>>
closeVars == <<flips, shutterClosed, monoOpen, ksOpen, ksInput, zaberOpen,
               labjackOpen, closePc, closeIdx, closeLog>>
scanVars  == <<scanPc, scanArgs, scanW, scanRep, scanStep, scanLog, scanStartLen>>
chargeVars == <<chargePc, chargeArgs, chargeN, chargeStatus, chargeStartLen,
                chargeReqs>>
zaberVars == <<zbConnected, zbStage, zbPosition, zbCall>>
monoVars  == <<monoLambda, monoWire, monoDecoded, monoPort, monoOp>>
ksVars    == <<ksInstrument, ksDelivered, ksCall>>
ljVars    == <<ljPc, ljArgs, ljState, ljLines, ljWrites, ljResets, ljStatus,
               ljReadCall>>
transVars == <<ksVars, ljVars>>
autoVars  == <<asPc, asMode, asSignal, asIdx, asIter, asSet>>
queryVars == <<pbReturned>>
gridVars  == <<gridPc, gridArgs, gridScan, gridSeen>>
sharedVars == <<slLine, slShutter, slFlip, slCall>>
vars      == <<dbVars, expVars, wavVars, mountVars, calibVars, cacheVars,
               timerVars, closeVars, scanVars, chargeVars, zaberVars, monoVars, transVars, autoVars, queryVars, gridVars, sharedVars>>

(***************************************************************************)
(* Helpers                                                                 *)
(***************************************************************************)
Last(s) == s[Len(s)]
Front(s) == SubSeq(s, 1, Len(s) - 1)
Range(s) == {s[i] : i \in 1..Len(s)}

RECURSIVE MaxIn(_, _, _)
\* The largest of s[lo..hi], by halves.
MaxIn(s, lo, hi) ==
    IF lo = hi THEN s[lo]
    ELSE LET mid == (lo + hi) \div 2
             a == MaxIn(s, lo, mid)
             b == MaxIn(s, mid + 1, hi)
         IN  IF a >= b THEN a ELSE b

\* max(...) of a non-empty sequence of numbers.
SeqMax(s) == MaxIn(s, 1, Len(s))

(***************************************************************************)
(* Bounds of the model                                                     *)
(***************************************************************************)
MaxRequests == 2      \* take_exposure requests per run
MaxPriorRows == 1     \* rows already in the run CSV when it is opened
MaxDbWrites == 2      \* write_exposure calls by a direct client of the database

(***************************************************************************)
(* Run database: pandora/database/db.py                                    *)
(***************************************************************************)
\* COLUMN_DEFINITIONS: the type of every column of the schema.
COLUMN_DEFINITIONS ==
    [expid |-> "int", exptime |-> "float", alt |-> "float", az |-> "float",
     effective_exptime |-> "float", timestamp |-> "str",
     currentInput |-> "float", currentInputErr |-> "float",
     currentOutput |-> "float", currentOutputErr |-> "float",
     solarCell |-> "float", solarCellErr |-> "float", wavelength |-> "float",
     shutter |-> "bool", flipSpecMount |-> "bool",
     flipOrderBlockFilter |-> "bool", flipOD2First |-> "bool",
     flipOD2Second |-> "bool", flipPD2 |-> "bool",
     flipQuarterWavePlate |-> "bool", flipPD3 |-> "bool",
     ndFilter |-> "str", pinholeMask |-> "str", focusPosition |-> "str",
     Description |-> "str"]

NaN == -999          \* np.nan, apart from every number that is staged
None == "None"       \* Python's None
PyBool(b) == IF b THEN "True" ELSE "False"   \* Python's True and False
ImportTime == 0      \* datetime.now() when columns_map is imported

\* DEFAULT_VALUES: its last key is "description", the schema's is "Description".
DEFAULT_VALUES ==
    [timestamp |-> ImportTime, expid |-> -99, exptime |-> -99,
     effective_exptime |-> -99, wavelength |-> NaN, currentInput |-> NaN,
     currentInputErr |-> NaN, currentOutput |-> NaN, currentOutputErr |-> NaN,
     solarCell |-> NaN, solarCellErr |-> NaN, shutter |-> None,
     flipSpecMount |-> "False", flipOrderBlockFilter |-> "False",
     flipOD2First |-> "False", flipOD2Second |-> "False", flipPD2 |-> "False",
     flipQuarterWavePlate |-> "False", flipPD3 |-> "False", ndFilter |-> None,
     pinholeMask |-> None, focusPosition |-> None, alt |-> NaN, az |-> NaN,
     description |-> ""]

\* The empty dict {}.
EmptyDict == [c \in {} |-> 0]

\* d.update(e) on dicts.
Update(d, e) ==
    [c \in (DOMAIN d) \cup (DOMAIN e) |-> IF c \in DOMAIN e THEN e[c] ELSE d[c]]

\* isinstance(value, type) for a value of Python type t: bool is a subclass of
\* int, np.float64 of float; an int is not a float.
IsInstance(t, type) ==
    \/ t = type
    \/ t = "bool" /\ type = "int"
    \/ t = "np.float64" /\ type = "float"

\* add(key, value) for a value v of Python type t: the staged dict afterwards,
\* or the exception raised.
DbAdd(staged, key, t, v) ==
    IF key \notin DOMAIN COLUMN_DEFINITIONS
    THEN [status |-> "KeyError", current_exposure |-> staged]
    ELSE IF key # "timestamp" /\ ~IsInstance(t, COLUMN_DEFINITIONS[key])
    THEN [status |-> "TypeError", current_exposure |-> staged]
    ELSE [status |-> "ok", current_exposure |-> Update(staged, [c \in {key} |-> v])]

\* The columns of a DataFrame: those of any of its rows.
FrameColumns(db) == UNION {DOMAIN db[i] : i \in 1..Len(db)}

\* The columns that hold numbers (the timestamp is a point of the clock).
NumberColumns ==
    {c \in DOMAIN COLUMN_DEFINITIONS :
        COLUMN_DEFINITIONS[c] \in {"int", "float"} \/ c = "timestamp"}

\* to_csv of one cell: NaN and None are written as the empty string, a bool as
\* True or False, a number in decimal; a cell the row lacks is NaN.
CsvCell(row, c) ==
    IF c \notin DOMAIN row THEN ""
    ELSE IF c \in NumberColumns
    THEN (IF row[c] = NaN THEN "" ELSE ToString(row[c]))
    ELSE IF row[c] = None THEN "" ELSE row[c]

\* run_db.to_csv(run_data_file, index=False): the whole frame, row by row.
ToCsv(db) ==
    [i \in 1..Len(db) |-> [c \in FrameColumns(db) |-> CsvCell(db[i], c)]]

\* The numbers that are written to a run CSV.
CsvNumbers == {-99, 500} \cup (-9..9)

\* The decimal text of each of them.
DecimalText == [n \in CsvNumbers |-> ToString(n)]

\* pd.read_csv of one cell with the dtype of its column: an empty cell is NaN
\* in a number column and NA elsewhere; a number is parsed from its decimal
\* text; text, True and False included (dtype 'object'), stays text.
ReadCell(cell, c) ==
    IF c \in NumberColumns
    THEN (IF cell = "" THEN NaN ELSE CHOOSE n \in CsvNumbers : DecimalText[n] = cell)
    ELSE IF cell = "" THEN None ELSE cell

\* pd.read_csv(run_data_file, dtype=self._get_dtype_dict())
ReadCsv(file) ==
    [i \in 1..Len(file) |-> [c \in DOMAIN file[i] |-> ReadCell(file[i][c], c)]]

\* What the exposure pipeline stages for a dark row (PandoraBox._save_exposure).
PriorStaged ==
    [exptime |-> 1, timestamp |-> 0, effective_exptime |-> 1, wavelength |-> 500,
     currentInput |-> -9, currentOutput |-> -9, currentInputErr |-> 0,
     currentOutputErr |-> 0, shutter |-> "False", flipOD2First |-> "False",
     flipOD2Second |-> "False", flipPD2 |-> "False", ndFilter |-> "DISABLED",
     Description |-> "dark"]

\* A row written by an earlier session of the same run.
PriorRow(i) == [Update(DEFAULT_VALUES, PriorStaged) EXCEPT !.expid = i]

PriorFile(k) == [i \in 1..k |-> PriorRow(i)]

\* set_next_expid: 0 for an empty frame, else the largest expid of the frame.
SetNextExpidZero(db) == 0
SetNextExpid(db) ==
    IF db = <<>> THEN 0
    ELSE SeqMax([i \in 1..Len(db) |-> db[i].expid])

\* write_exposure, "Assign a new expid": self.current_expid += 1.
NextExpidSkip(cur) == cur + 2
NextExpid(cur) == cur + 1

\* write_exposure, "Update the main run CSV": the frame with the new row.
CsvOfFrameBefore(db, new_db) == ToCsv(db)
CsvOfFrame(db, new_db) == ToCsv(new_db)

\* write_exposure: the new row is the defaults updated with what was staged,
\* it gets the new expid and is appended to the frame, which is then written
\* to the run CSV; the staged dict is reset.
WriteExposure(db, cur, staged) ==
    LET expid == NextExpid(cur)
        new_row == [Update(DEFAULT_VALUES, staged) EXCEPT !.expid = expid]
        new_db == Append(db, new_row)
    IN  [run_db |-> new_db, current_expid |-> expid,
         run_csv |-> CsvOfFrame(db, new_db), current_exposure |-> EmptyDict]

DbInit ==
    \E k \in 0..MaxPriorRows :
        /\ run_csv = ToCsv(PriorFile(k))
        /\ run_db = ReadCsv(ToCsv(PriorFile(k)))
        /\ current_expid = SetNextExpid(ReadCsv(ToCsv(PriorFile(k))))
        /\ fresh = (k = 0)
        /\ openLen = k
        /\ current_exposure = DEFAULT_VALUES
        /\ stagedSince = {}
        /\ rowStaged = [i \in 1..k |-> DOMAIN PriorStaged]
        /\ addResult = "none"

\* What the client of the database passes to add(): key, Python type, value.
AddInputs ==
    {[key |-> "currentInput", t |-> "np.float64", v |-> 5],
     [key |-> "currentInput", t |-> "int", v |-> 5],
     [key |-> "exptime", t |-> "int", v |-> 1],
     [key |-> "shutter", t |-> "bool", v |-> "True"],
     [key |-> "Description", t |-> "str", v |-> "acq"],
     [key |-> "description", t |-> "str", v |-> "acq"]}

\* add(key, value)
Add ==
    \E a \in AddInputs :
        LET r == DbAdd(current_exposure, a.key, a.t, a.v)
        IN  /\ addResult' = r.status
            /\ current_exposure' = r.current_exposure
            /\ stagedSince' = IF r.status = "ok" THEN stagedSince \cup {a.key}
                               ELSE stagedSince
            /\ UNCHANGED <<run_db, current_expid, fresh, run_csv, rowStaged, openLen>>

\* write_exposure()
Write ==
    /\ Len(run_db) < MaxPriorRows + MaxDbWrites
    /\ LET w == WriteExposure(run_db, current_expid, current_exposure)
       IN  /\ run_db' = w.run_db
           /\ current_expid' = w.current_expid
           /\ run_csv' = w.run_csv
           /\ current_exposure' = w.current_exposure
    /\ stagedSince' = {}
    /\ rowStaged' = Append(rowStaged, stagedSince)
    /\ UNCHANGED <<fresh, addResult, openLen>>

\* close(), which saves the frame, and then PandoraDatabase(run_id=...) on the
\* same run: _load_or_init_run_db, set_next_expid, a fresh staged dict.
Reopen ==
    /\ Len(run_db) > openLen
    /\ run_csv' = ToCsv(run_db)
    /\ run_db' = ReadCsv(ToCsv(run_db))
    /\ current_expid' = SetNextExpid(ReadCsv(ToCsv(run_db)))
    /\ fresh' = (run_db = <<>>)
    /\ current_exposure' = DEFAULT_VALUES
    /\ stagedSince' = {}
    /\ openLen' = Len(run_db)
    /\ addResult' = "none"
    /\ UNCHANGED rowStaged

DbFrozen ==
    /\ run_db = <<>>
    /\ run_csv = <<>>
    /\ current_expid = 0
    /\ fresh = TRUE
    /\ openLen = 0
    /\ current_exposure = DEFAULT_VALUES
    /\ stagedSince = {}
    /\ rowStaged = <<>>
    /\ addResult = "none"

(***************************************************************************)
(* Shutter: pandora/states/shutter_state.py                                *)
(* activate() closes the shutter (PandoraBox.close_shutter), deactivate()  *)
(* opens it (PandoraBox.open_shutter).                                     *)
(***************************************************************************)
ShutterValid ==
    [s \in {"uninitialized", "idle", "on", "off", "fault"} |->
        CASE s = "uninitialized" -> {"idle"}
          [] s = "idle"  -> {"on", "off", "fault", "uninitialized", "idle"}
          [] s = "on"    -> {"off", "fault", "on", "idle", "uninitialized"}
          [] s = "off"   -> {"on", "fault", "off"}
          [] s = "fault" -> {"idle"}]

ShutterSetState(s, new) == IF new \in ShutterValid[s] THEN new ELSE s

\* What a read of the digital line gives: the bit, or a failure.
ReadOutcomes == {"0", "1", "err"}

ShutterGetState(s, rd) ==
    IF s # "uninitialized"
    THEN ShutterSetState(s, IF rd = "err" THEN "fault"
                            ELSE IF rd = "0" THEN "on" ELSE "off")
    ELSE s

ShutterActivateFromFault(s, rd) ==
    IF s = "off" \/ s = "fault" THEN "on"
    ELSE IF s = "idle"
         THEN LET g == ShutterGetState(s, rd)
              IN  IF g = "off" THEN ShutterSetState(g, "on") ELSE g
         ELSE s
ShutterActivate(s, rd) ==
    IF s = "off" THEN ShutterSetState(s, "on")
    ELSE IF s = "idle"
         THEN LET g == ShutterGetState(s, rd)
              IN  IF g = "off" THEN ShutterSetState(g, "on") ELSE g
         ELSE s

ShutterDeactivate(s, rd) ==
    IF s = "on" THEN ShutterSetState(s, "off")
    ELSE IF s = "idle"
         THEN LET g == ShutterGetState(s, rd)
              IN  IF g = "on" THEN ShutterSetState(g, "off") ELSE g
         ELSE s

(***************************************************************************)
(* Exposure sequencer: PandoraBox.take_exposure, _save_exposure,           *)
(* set_photodiode_scale (pandora/pandora_controller.py)                    *)
(***************************************************************************)
\* A reading is the decimal exponent of |mean|: 10^36 A (the largest reading
\* that is not an overflow) and 10^40 A.
MeanExps == {36, 40}

\* np.abs(np.mean(d['CURR'])) > 1e36
OverflowExp == 36
IsOverflow(m) == m > OverflowExp

\* "if (np.abs(np.mean(d1['CURR'])) > 1e36) and (not warning)"
RetryNeeded(m, warning) == IsOverflow(m) /\ ~warning

\* set_photodiode_scale: ks = k1 if keysight_id == 1 else k2
SelectKeysightSwapped(keysight_id) == IF keysight_id = 1 THEN 2 ELSE 1
SelectKeysight(keysight_id) == IF keysight_id = 1 THEN 1 ELSE 2

\* take_exposure: "if is_dark: self.close_shutter() else: self.open_shutter()"
ShutterCallAlwaysOpen(is_dark) == "open_shutter"
ShutterCall(is_dark) == IF is_dark THEN "close_shutter" ELSE "open_shutter"

ApplyShutterCall(call, s, rd) ==
    IF call = "close_shutter" THEN ShutterActivate(s, rd) ELSE ShutterDeactivate(s, rd)

Ev(inv, ev, arg) == [inv |-> inv, ev |-> ev, arg |-> arg]

\* The is_dark argument as it is logged with a call.
DarkArg(is_dark) == IF is_dark THEN 1 ELSE 0

NewFrame(is_dark, warning, inv) ==
    [pc |-> "begin", is_dark |-> is_dark, warning |-> warning, inv |-> inv,
     timestamp |-> <<>>, d1 |-> <<>>, d2 |-> <<>>]

Top == Last(stack)
SetTop(f) == [stack EXCEPT ![Len(stack)] = f]

\* A request: take_exposure(exptime, is_dark=is_dark) called by the operator
\* or by a scan, with warning=False.
CallTakeExposure(is_dark) ==
    /\ stack' = <<NewFrame(is_dark, FALSE, 1)>>
    /\ trace' = <<Ev(1, "take_exposure", DarkArg(is_dark))>>
    /\ nAuto' = [k \in {1, 2} |-> 0]
    /\ nInv' = 1
    /\ reqs' = reqs + 1
    /\ reqStartLen' = Len(run_db)
    /\ UNCHANGED <<dbVars, clock, shutterState>>

TakeExposure ==
    /\ stack = <<>>
    /\ reqs < MaxRequests
    /\ \E is_dark \in BOOLEAN : CallTakeExposure(is_dark)

\* Lines 225-239: inputs on, acquisition time, timestamp, shutter, timer mark.
ExpBegin ==
    /\ stack # <<>>
    /\ Top.pc = "begin"
    /\ \E rd \in ReadOutcomes :
           shutterState' = ApplyShutterCall(ShutterCall(Top.is_dark), shutterState, rd)
    /\ trace' = Append(trace, Ev(Top.inv, ShutterCall(Top.is_dark), 0))
    /\ stack' = SetTop([Top EXCEPT !.pc = "arm", !.timestamp = <<clock>>])
    /\ UNCHANGED <<dbVars, clock, nAuto, nInv, reqs, reqStartLen>>

\* Lines 242-243: k1.acquire(); k2.acquire().
ExpArm ==
    /\ stack # <<>>
    /\ Top.pc = "arm"
    /\ trace' = trace \o <<Ev(Top.inv, "acquire", 1), Ev(Top.inv, "acquire", 2)>>
    /\ stack' = SetTop([Top EXCEPT !.pc = "sleep"])
    /\ UNCHANGED <<dbVars, clock, shutterState, nAuto, nInv, reqs, reqStartLen>>

\* Line 246: self.timer.sleep(exptime).
ExpSleep ==
    /\ stack # <<>>
    /\ Top.pc = "sleep"
    /\ clock' = clock + 1
    /\ trace' = Append(trace, Ev(Top.inv, "sleep", 0))
    /\ stack' = SetTop([Top EXCEPT !.pc = "close"])
    /\ UNCHANGED <<dbVars, shutterState, nAuto, nInv, reqs, reqStartLen>>

\* Lines 247-248: self.close_shutter(); eff_exptime.
ExpClose ==
    /\ stack # <<>>
    /\ Top.pc = "close"
    /\ \E rd \in ReadOutcomes :
           shutterState' = ApplyShutterCall("close_shutter", shutterState, rd)
    /\ trace' = Append(trace, Ev(Top.inv, "close_shutter", 0))
    /\ stack' = SetTop([Top EXCEPT !.pc = "read"])
    /\ UNCHANGED <<dbVars, clock, nAuto, nInv, reqs, reqStartLen>>

\* Lines 251-252: d1 = k1.read_data(wait=True); d2 = k2.read_data(wait=True).
ExpReadFrom(S1, S2) ==
    /\ stack # <<>>
    /\ Top.pc = "read"
    /\ \E m1 \in S1, m2 \in S2 :
           /\ stack' = SetTop([Top EXCEPT !.pc = "chk1", !.d1 = <<m1>>, !.d2 = <<m2>>])
           /\ trace' = trace \o <<Ev(Top.inv, "read", 1), Ev(Top.inv, "mean1", m1),
                                  Ev(Top.inv, "read", 2), Ev(Top.inv, "mean2", m2)>>
    /\ UNCHANGED <<dbVars, clock, shutterState, nAuto, nInv, reqs, reqStartLen>>

ExpRead == ExpReadFrom(MeanExps, MeanExps)

\* Lines 257-261 (k = 1) and 264-268 (k = 2): on an overflow of electrometer k in
\* an invocation with warning=False, set_photodiode_scale(keysight_id=k) (open
\* the shutter, auto_scale, close the shutter) and then a nested
\* take_exposure(..., warning=True); the caller goes on when it returns.
ExpCheck(k) ==
    /\ stack # <<>>
    /\ Top.pc = (IF k = 1 THEN "chk1" ELSE "chk2")
    /\ LET m    == IF k = 1 THEN Top.d1[1] ELSE Top.d2[1]
           next == IF k = 1 THEN "chk2" ELSE "save"
           ks   == SelectKeysight(k)
       IN  IF RetryNeeded(m, Top.warning)
           THEN /\ \E rd \in ReadOutcomes :
                      shutterState' =
                          ApplyShutterCall("close_shutter",
                              ApplyShutterCall("open_shutter", shutterState, rd), rd)
                /\ trace' = trace \o <<Ev(Top.inv, "open_shutter", 0),
                                       Ev(Top.inv, "auto_scale", ks),
                                       Ev(Top.inv, "close_shutter", 0),
                                       Ev(nInv + 1, "take_exposure", DarkArg(Top.is_dark))>>
                /\ nAuto' = [nAuto EXCEPT ![ks] = @ + 1]
                /\ nInv' = nInv + 1
                /\ stack' = Append(SetTop([Top EXCEPT !.pc = next]),
                                   NewFrame(Top.is_dark, TRUE, nInv + 1))
           ELSE /\ stack' = SetTop([Top EXCEPT !.pc = next])
                /\ UNCHANGED <<shutterState, trace, nAuto, nInv>>
    /\ UNCHANGED <<dbVars, clock, reqs, reqStartLen>>

ExpCheck1 == ExpCheck(1)
ExpCheck2 == ExpCheck(2)

\* _save_exposure: the row staged with pdb.add(...) from d1, d2, the timestamp
\* and the shutter flag (not is_dark).
StagedRow(f) ==
    [exptime |-> 1, timestamp |-> f.timestamp[1], effective_exptime |-> 1,
     wavelength |-> pbWavelength,
     currentInput |-> f.d1[1], currentOutput |-> f.d2[1],
     currentInputErr |-> 0, currentOutputErr |-> 0,
     shutter |-> PyBool(~f.is_dark),
     flipOD2First |-> PyBool(flips["flipOD2First"] = "on"),
     flipOD2Second |-> PyBool(flips["flipOD2Second"] = "on"),
     flipPD2 |-> PyBool(flips["flipPD2"] = "on"),
     ndFilter |-> "DISABLED",
     Description |-> IF f.is_dark THEN "dark" ELSE "acq"]

\* Line 271: self._save_exposure(d1, d2, ...), which ends in write_exposure();
\* then take_exposure returns.
ExpSave ==
    /\ stack # <<>>
    /\ Top.pc = "save"
    /\ IF pbWavelength = -1
       THEN \* Line 344: float(self.wavelength) raises TypeError for None (-1), after
            \* the three add() calls before it; the exception leaves every
            \* take_exposure frame and no row is written.
            LET early == {"exptime", "timestamp", "effective_exptime"}
            IN  /\ current_exposure' =
                       Update(current_exposure, [c \in early |-> StagedRow(Top)[c]])
                /\ stagedSince' = stagedSince \cup early
                /\ addResult' = "ok"
                /\ trace' = Append(trace, Ev(Top.inv, "TypeError", 0))
                /\ stack' = <<>>
                /\ UNCHANGED <<run_db, current_expid, run_csv, rowStaged>>
       ELSE LET w == WriteExposure(run_db, current_expid,
                                   Update(current_exposure, StagedRow(Top)))
            IN  /\ run_db' = w.run_db
                /\ current_expid' = w.current_expid
                /\ run_csv' = w.run_csv
                /\ current_exposure' = w.current_exposure
                /\ stagedSince' = {}
                /\ rowStaged' = Append(rowStaged, stagedSince \cup DOMAIN StagedRow(Top))
                /\ addResult' = "ok"
                /\ trace' = Append(trace, Ev(Top.inv, "commit", w.current_expid))
                /\ stack' = Front(stack)
    /\ UNCHANGED <<fresh, openLen, clock, shutterState, nAuto, nInv, reqs, reqStartLen>>

ExpInit ==
    /\ stack = <<>>
    /\ clock = 1
    /\ shutterState \in {"on", "fault"}
    /\ trace = <<>>
    /\ nAuto = [k \in {1, 2} |-> 0]
    /\ nInv = 0
    /\ reqs = 0
    /\ reqStartLen = 0

ExpFrozen ==
    /\ stack = <<>>
    /\ clock = 1
    /\ shutterState = "on"
    /\ trace = <<>>
    /\ nAuto = [k \in {1, 2} |-> 0]
    /\ nInv = 0
    /\ reqs = 0
    /\ reqStartLen = 0

(***************************************************************************)
(* Order-block flip mount and set_wavelength:                              *)
(* pandora/states/flipmount_state.py, PandoraBox.set_wavelength,           *)
(* PandoraBox.enable_2nd_order_filter                                      *)
(***************************************************************************)
FlipValid ==
    [s \in {"uninitialized", "idle", "on", "off", "fault"} |->
        CASE s = "uninitialized" -> {"idle"}
          [] s = "idle"  -> {"on", "off", "fault", "uninitialized", "idle"}
          [] s = "on"    -> {"off", "fault", "on", "uninitialized"}
          [] s = "off"   -> {"on", "fault", "off", "uninitialized"}
          [] s = "fault" -> {"idle"}]

FlipSetState(s, new) == IF new \in FlipValid[s] THEN new ELSE s

\* get_state: int(labjack.read(port)) is 0 -> ON, else OFF; any exception -> FAULT.
FlipGetState(s, rd) ==
    IF s # "uninitialized"
    THEN FlipSetState(s, IF rd = "err" THEN "fault"
                         ELSE IF rd = "0" THEN "on" ELSE "off")
    ELSE s

\* What a read of a line at level l may give.
LineRead(l) == {IF l = 0 THEN "0" ELSE "1", "err"}

\* activate(): the state it leaves and whether it writes the line low.
\* In IDLE it queries the state and calls itself again.
FlipActivate(s, rd) ==
    LET g == IF s = "idle" THEN FlipGetState(s, rd) ELSE s
    IN  IF g = "off" THEN [state |-> FlipSetState(g, "on"), write |-> TRUE]
        ELSE [state |-> g, write |-> FALSE]

\* deactivate(): the state it leaves and whether it writes the line high.
FlipDeactivate(s, rd) ==
    LET g == IF s = "idle" THEN FlipGetState(s, rd) ELSE s
    IN  IF g = "on" THEN [state |-> FlipSetState(g, "off"), write |-> TRUE]
        ELSE [state |-> g, write |-> FALSE]

\* The configured second-order filter crossover, in nm.
Crossover == 700

\* Wavelengths asked for, in nm.
Wavelengths == {300, 700, 701, 900}

\* set_wavelength: "if wavelength > self.monochromator.wav_second_order_filter"
NeedsOrderBlock(w) == w > Crossover

\* enable_2nd_order_filter(state): activate() or deactivate() of the flip mount.
Enable2ndOrderFilter(state, s, rd) ==
    IF state THEN FlipActivate(s, rd) ELSE FlipDeactivate(s, rd)

\* A LabJack write either gets through (after its reconnects) or raises.
WriteOutcomes == {"ok", "raise"}

\* What the monochromator may answer to the GOTO command: a status byte below
\* 128, a status byte with bit 7 set, or nothing within the timeout.
MonoAnswers == {"accepted", "rejected", "silent"}

\* move_to_wavelength as its caller sees it: a status byte with bit 7 set goes
\* to _handle_status_byte, which logs; no answer is logged; the call returns
\* None in every case.
MoveStatus(ans) == "ok"

\* The outcome of a set_wavelength call, with its argument, the state of the
\* flip mount when it was called and the monochromator's answer.
SwOutcome(status, w, ans) ==
    [status |-> status, wavelength |-> w, pre |-> fmState, answer |-> ans]

NoSw == [status |-> "none", wavelength |-> 0, pre |-> "idle", answer |-> "none"]

\* set_wavelength(w). The flip mount is driven first; a LabJack write that raises
\* ends the call there. move_to_wavelength never raises, whatever the
\* monochromator answers, and self.wavelength = w follows.
SetWavelengthTo(w) ==
    \E rd \in LineRead(fmLine), wr \in WriteOutcomes, ans \in MonoAnswers :
        LET f == Enable2ndOrderFilter(NeedsOrderBlock(w), fmState, rd)
        IN  IF f.write /\ wr = "raise"
            THEN /\ fmState' = (IF fmState = "idle" THEN FlipGetState(fmState, rd)
                                ELSE fmState)
                 /\ swResult' = SwOutcome("raised", w, "none")
                 /\ UNCHANGED <<fmLine, pbWavelength>>
            ELSE /\ fmState' = f.state
                 /\ fmLine' = (IF f.write
                               THEN (IF NeedsOrderBlock(w) THEN 0 ELSE 1)
                               ELSE fmLine)
                 /\ pbWavelength' = w
                 /\ swResult' = SwOutcome(MoveStatus(ans), w, ans)

SetWavelength == \E w \in Wavelengths : SetWavelengthTo(w)

\* flip <name> --on / --off: activate() or deactivate() called directly.
FlipSwitch ==
    \E on \in BOOLEAN, rd \in LineRead(fmLine), wr \in WriteOutcomes :
        LET f == Enable2ndOrderFilter(on, fmState, rd)
        IN  /\ IF f.write /\ wr = "raise"
               THEN /\ fmState' = (IF fmState = "idle" THEN FlipGetState(fmState, rd)
                                   ELSE fmState)
                    /\ UNCHANGED fmLine
               ELSE /\ fmState' = f.state
                    /\ fmLine' = (IF f.write THEN (IF on THEN 0 ELSE 1) ELSE fmLine)
            /\ swResult' = NoSw
            /\ UNCHANGED pbWavelength

\* flip <name> --state: get_state().
FlipQuery ==
    \E rd \in LineRead(fmLine) :
        /\ fmState' = FlipGetState(fmState, rd)
        /\ swResult' = NoSw
        /\ UNCHANGED <<fmLine, pbWavelength>>

\* reset(): FAULT -> IDLE.
FlipReset ==
    /\ fmState = "fault"
    /\ fmState' = FlipSetState(fmState, "idle")
    /\ swResult' = NoSw
    /\ UNCHANGED <<fmLine, pbWavelength>>

\* initialize(): set_state(IDLE), which only UNINITIALIZED, IDLE and FAULT
\* allow, and get_state().
FlipInitialize ==
    \E rd \in LineRead(fmLine) :
        /\ fmState' = FlipGetState(FlipSetState(fmState, "idle"), rd)
        /\ swResult' = NoSw
        /\ UNCHANGED <<fmLine, pbWavelength>>

\* close(): deactivate(), set_state(UNINITIALIZED), get_state().
FlipClose ==
    \E rd \in LineRead(fmLine), wr \in WriteOutcomes :
        LET f == FlipDeactivate(fmState, rd)
        IN  /\ IF f.write /\ wr = "raise"
               THEN /\ fmState' = (IF fmState = "idle" THEN FlipGetState(fmState, rd)
                                   ELSE fmState)
                    /\ UNCHANGED fmLine
               ELSE /\ fmState' = FlipSetState(f.state, "uninitialized")
                    /\ fmLine' = (IF f.write THEN 1 ELSE fmLine)
            /\ swResult' = NoSw
            /\ UNCHANGED pbWavelength

\* After construction: initialize() is set_state(IDLE) and get_state(), on a
\* line at either level; PandoraBox.wavelength = 0.
WavInit ==
    /\ fmLine \in {0, 1}
    /\ \E rd \in LineRead(fmLine) :
           fmState = FlipGetState(FlipSetState("uninitialized", "idle"), rd)
    /\ pbWavelength = 0
    /\ swResult = NoSw

WavFrozen ==
    /\ fmLine = 1
    /\ fmState = "off"
    /\ pbWavelength = 0
    /\ swResult = NoSw

(***************************************************************************)
(* Telescope mount: pandora/controller/ioptron.py                          *)
(***************************************************************************)
\* safety.get("az_lower"), safety.get("az_upper"): the configured azimuth range.
AzLower == 60
AzUpper == 300

\* Angles asked for, in degrees.
Alts == {10, 15, 20, 95}
Azs == {30, 60, 180, 300, 330}
AltLimits == {0, 15}

\* goto_altaz: "if alt_deg < alt_limit: raise ValueError"
AltBelowLimitNever(alt, limit) == FALSE
AltBelowLimit(alt, limit) == alt < limit

\* goto_altaz: "if not (self.az_lower <= az_deg <= self.az_upper): raise ValueError"
AzInRange(az) == AzLower <= az /\ az <= AzUpper

\* _format_altitude: "if not -90.0 <= deg_alt <= 90.0: raise ValueError"
AltFormats(alt) == -90 <= alt /\ alt <= 90

\* What _cmd_single reads back after a set command: "1" accepted, "0" refused,
\* "" nothing within the serial timeout.
Acks == {"1", "0", ""}

\* _cmd_single: "if not resp: raise TimeoutError"; the callers raise
\* RuntimeError on any other answer than "1".
AckFailure(a) == IF a = "" THEN "TimeoutError" ELSE "RuntimeError"

\* goto_altaz: 'if self._cmd_single(...) != "1": raise RuntimeError(...)'
AcceptedUnlessSilent(a) == a # ""
Accepted(a) == a = "1"

NoTarget == [alt |-> <<>>, az |-> <<>>]

MountState == [parked |-> mountParked, limit |-> mountAltLimit,
               target |-> mountTarget, pos |-> mountPos]

\* The outcome of a goto_altaz call, with its arguments and the state of the
\* mount when it was called.
GotoOutcome(status, alt, az) ==
    [status |-> status, alt |-> alt, az |-> az, pre |-> MountState]

\* goto_altaz(alt, az). The status and the altitude limit are queried first
\* (:GAC#, :GLS#, :GAL#); then :Sa, :Sz and :MSS are sent, each only if the
\* command before it was acknowledged with "1".
GotoAltAz ==
    \E alt \in Alts, az \in Azs, aSa \in Acks, aSz \in Acks, aMSS \in Acks :
        \* no answer is drawn for a command that is never sent
        /\ aSa # "1" => aSz = "1"
        /\ aSz # "1" => aMSS = "1"
        /\ UNCHANGED <<mountParked, mountAltLimit>>
        /\ IF mountParked
           THEN /\ mountCmds' = <<"GAC", "GLS">>
                /\ mountAcks' = <<>>
                /\ gotoResult' = GotoOutcome("RuntimeError", alt, az)
                /\ UNCHANGED <<mountTarget, mountPos>>
           ELSE IF AltBelowLimit(alt, mountAltLimit) \/ ~AzInRange(az) \/ ~AltFormats(alt)
           THEN /\ mountCmds' = <<"GAC", "GLS", "GAL">>
                /\ mountAcks' = <<>>
                /\ gotoResult' = GotoOutcome("ValueError", alt, az)
                /\ UNCHANGED <<mountTarget, mountPos>>
           ELSE IF ~Accepted(aSa)
           THEN /\ mountCmds' = <<"GAC", "GLS", "GAL", "Sa">>
                /\ mountAcks' = <<aSa>>
                /\ gotoResult' = GotoOutcome(AckFailure(aSa), alt, az)
                /\ UNCHANGED <<mountTarget, mountPos>>
           ELSE IF ~Accepted(aSz)
           THEN /\ mountCmds' = <<"GAC", "GLS", "GAL", "Sa", "Sz">>
                /\ mountAcks' = <<aSa, aSz>>
                /\ mountTarget' = [mountTarget EXCEPT !.alt = <<alt>>]
                /\ gotoResult' = GotoOutcome(AckFailure(aSz), alt, az)
                /\ UNCHANGED mountPos
           ELSE IF ~Accepted(aMSS)
           THEN /\ mountCmds' = <<"GAC", "GLS", "GAL", "Sa", "Sz", "MSS">>
                /\ mountAcks' = <<aSa, aSz, aMSS>>
                /\ mountTarget' = [alt |-> <<alt>>, az |-> <<az>>]
                /\ gotoResult' = GotoOutcome(AckFailure(aMSS), alt, az)
                /\ UNCHANGED mountPos
           ELSE /\ mountCmds' = <<"GAC", "GLS", "GAL", "Sa", "Sz", "MSS", "ST0">>
                /\ mountAcks' = <<aSa, aSz, aMSS>>
                /\ mountTarget' = [alt |-> <<alt>>, az |-> <<az>>]
                /\ mountPos' = [alt |-> alt, az |-> az]
                /\ gotoResult' = GotoOutcome("ok", alt, az)

NoGoto == [status |-> "none", alt |-> 0, az |-> 0,
           pre |-> [parked |-> FALSE, limit |-> 0, target |-> NoTarget,
                    pos |-> [alt |-> 90, az |-> 0]]]

\* park(): :MP1# accepted; the mount ends in the state "Parked".
Park ==
    /\ ~mountParked
    /\ mountParked' = TRUE
    /\ mountCmds' = <<>>
    /\ mountAcks' = <<>>
    /\ gotoResult' = NoGoto
    /\ UNCHANGED <<mountAltLimit, mountTarget, mountPos>>

\* unpark(): :MP0# accepted.
Unpark ==
    /\ mountParked
    /\ mountParked' = FALSE
    /\ mountCmds' = <<>>
    /\ mountAcks' = <<>>
    /\ gotoResult' = NoGoto
    /\ UNCHANGED <<mountAltLimit, mountTarget, mountPos>>

\* set_alt_limit(deg): :SAL accepted.
SetAltLimit ==
    \E deg \in AltLimits :
        /\ mountAltLimit' = deg
        /\ mountCmds' = <<>>
        /\ mountAcks' = <<>>
        /\ gotoResult' = NoGoto
        /\ UNCHANGED <<mountParked, mountTarget, mountPos>>

MountInit ==
    /\ mountParked \in BOOLEAN
    /\ mountAltLimit \in AltLimits
    /\ mountTarget = NoTarget
    /\ mountPos = [alt |-> 90, az |-> 0]
    /\ mountCmds = <<>>
    /\ mountAcks = <<>>
    /\ gotoResult = NoGoto

MountFrozen ==
    /\ mountParked = TRUE
    /\ mountAltLimit = 0
    /\ mountTarget = NoTarget
    /\ mountPos = [alt |-> 90, az |-> 0]
    /\ mountCmds = <<>>
    /\ mountAcks = <<>>
    /\ gotoResult = NoGoto

(***************************************************************************)
(* Calibration store: pandora/database/calib_db.py                         *)
(***************************************************************************)
Tags == {"throughput", "transmission_ND01"}

\* Time runs in ticks, the resolution of datetime.now(); a second has
\* TicksPerSecond of them.
TicksPerSecond == 2
MaxCalibRows == 3
MaxDt == 3

\* add_calibration: fname = t0.strftime("%Y%m%d_%H%M%S"), to the second.
Filename(t) == t \div TicksPerSecond

\* add_calibration: timestamp = t0.isoformat(), to the tick.
Timestamp(t) == t

\* self.calib_log[self.calib_log["tag"] == tag]
TagEntries(log, tag) == {i \in 1..Len(log) : log[i].tag = tag}

\* add_calibration: the new row is the default iff the tag has no row yet.
AddedLogAlwaysDefault(log, tag, t) ==
    Append(log, [tag |-> tag, filename |-> Filename(t), timestamp |-> Timestamp(t),
                 is_default |-> TRUE])
AddedLog(log, tag, t) ==
    Append(log, [tag |-> tag, filename |-> Filename(t), timestamp |-> Timestamp(t),
                 is_default |-> (TagEntries(log, tag) = {})])

\* set_default: tag_entries.sort_values("timestamp", ascending=False).iloc[0]
MostRecent(log, tag) ==
    CHOOSE i \in TagEntries(log, tag) :
        \A j \in TagEntries(log, tag) : log[j].timestamp <= log[i].timestamp

\* set_default: all rows of the tag to False, then the rows of the tag with
\* this filename to True.
MarkedLogKeepOthers(log, tag, filename) ==
    [i \in 1..Len(log) |->
        IF log[i].tag = tag /\ log[i].filename = filename
        THEN [log[i] EXCEPT !.is_default = TRUE]
        ELSE log[i]]
MarkedLog(log, tag, filename) ==
    [i \in 1..Len(log) |->
        IF log[i].tag = tag
        THEN [log[i] EXCEPT !.is_default = (log[i].filename = filename)]
        ELSE log[i]]

\* add_calibration(tag, data) at some later time.
AddCalibration ==
    \E tag \in Tags, dt \in 1..MaxDt :
        /\ Len(calib_log) < MaxCalibRows
        /\ calibNow' = calibNow + dt
        /\ calib_log' = AddedLog(calib_log, tag, calibNow')
        /\ calibCall' = [op |-> "add_calibration", tag |-> tag, fn |-> <<>>,
                         status |-> "ok"]

\* The file names set_default may be called with: those of the log, and one
\* that no row has.
FilenameArgs == {calib_log[i].filename : i \in 1..Len(calib_log)} \cup {-1}

\* set_default(tag, filename); fn = <<>> is filename=None.
SetDefault ==
    \E tag \in Tags, fn \in {<<>>} \cup {<<f>> : f \in FilenameArgs} :
        /\ UNCHANGED calibNow
        /\ IF TagEntries(calib_log, tag) = {}
           THEN /\ UNCHANGED calib_log
                /\ calibCall' = [op |-> "set_default", tag |-> tag, fn |-> fn,
                                 status |-> "no files"]
           ELSE LET filename == IF fn = <<>>
                                THEN calib_log[MostRecent(calib_log, tag)].filename
                                ELSE fn[1]
                IN  IF filename \notin {calib_log[i].filename : i \in TagEntries(calib_log, tag)}
                    THEN /\ UNCHANGED calib_log
                         /\ calibCall' = [op |-> "set_default", tag |-> tag, fn |-> fn,
                                          status |-> "ValueError"]
                    ELSE /\ calib_log' = MarkedLog(calib_log, tag, filename)
                         /\ calibCall' = [op |-> "set_default", tag |-> tag, fn |-> fn,
                                          status |-> "ok"]

CalibInit ==
    /\ calib_log = <<>>
    /\ calibNow = 0
    /\ calibCall = [op |-> "none", tag |-> "none", fn |-> <<>>, status |-> "none"]

CalibFrozen == CalibInit

(***************************************************************************)
(* Run identifiers: pandora/database/db.py                                 *)
(* A run id is the string YYYYMMDDXXX, here the sequence of its digits.    *)
(***************************************************************************)
Date1 == <<2, 0, 2, 5, 1, 1, 2, 0>>
Date2 == <<2, 0, 2, 5, 1, 1, 2, 1>>
Dates == <<Date1, Date2>>

\* Constructions per behaviour, and the runs a cache may already hold for
\* the first date when the behaviour starts: none, or all but the last two.
MaxConstructions == 3
PriorRuns == {0, 997}

\* generate_new_run_id: "if new_suffix > 999: raise ValueError"
MaxSuffix == 999

RECURSIVE DigitsOf(_)
\* The decimal digits of n, as str(n) writes them.
DigitsOf(n) == IF n < 10 THEN <<n>> ELSE Append(DigitsOf(n \div 10), n % 10)

RECURSIVE ZeroPad(_, _)
\* f"{n:03d}": zeros to the left up to the width, never cut.
ZeroPad(ds, width) == IF Len(ds) >= width THEN ds ELSE ZeroPad(<<0>> \o ds, width)

Fmt03d(n) == ZeroPad(DigitsOf(n), 3)

\* int(r[-3:])
SuffixOf(r) == 100 * r[Len(r) - 2] + 10 * r[Len(r) - 1] + r[Len(r)]

\* rid.startswith(date_str)
StartsWith(r, d) == Len(r) >= Len(d) /\ SubSeq(r, 1, Len(d)) = d

\* [rid for rid in cache if rid.startswith(date_str)]
RunIdsForDate(c, d) == SelectSeq(c, LAMBDA r : StartsWith(r, d))

\* [int(r[-3:]) for r in run_ids_for_date if len(r) == 11]
ExistingSuffixes(rids) ==
    LET full == SelectSeq(rids, LAMBDA r : Len(r) = 11)
    IN  [i \in 1..Len(full) |-> SuffixOf(full[i])]

\* generate_new_run_id: new_suffix = 1, or max(existing_suffixes) + 1.
NewSuffixReuse(rids) == IF rids = <<>> THEN 1 ELSE SeqMax(ExistingSuffixes(rids))
NewSuffix(rids) == IF rids = <<>> THEN 1 ELSE SeqMax(ExistingSuffixes(rids)) + 1

\* generate_new_run_id(date_str, cache_file): the new id, or <<>> when it
\* raises ValueError.
GenerateNewRunId(d, c) ==
    LET n == NewSuffix(RunIdsForDate(c, d))
    IN  IF n > MaxSuffix THEN <<>> ELSE d \o Fmt03d(n)

\* _latest_run_id_for_date(date_str)
LatestRunIdForDate(d, c) ==
    LET rids == RunIdsForDate(c, d)
    IN  IF rids = <<>> THEN d \o Fmt03d(1)
        ELSE d \o Fmt03d(SeqMax(ExistingSuffixes(rids)))

AllocOutcome(status, rid) ==
    [status |-> status, run_id |-> rid, date |-> Dates[today], pre |-> cache]

\* PandoraDatabase(run_id=None, writing_mode=True)
ConstructWriting ==
    /\ Len(allocated) < MaxConstructions
    /\ LET rid == GenerateNewRunId(Dates[today], cache)
       IN  IF rid = <<>>
           THEN /\ allocResult' = AllocOutcome("ValueError", <<>>)
                /\ UNCHANGED <<cache, allocated>>
           ELSE /\ cache' = Append(cache, rid)
                /\ allocated' = Append(allocated, rid)
                /\ allocResult' = AllocOutcome("allocated", rid)
    /\ UNCHANGED today

\* PandoraDatabase(run_id=rid): the id is trusted and the cache not touched.
ConstructExplicit ==
    \E n \in {1, 2, 5} :
        /\ allocResult' = AllocOutcome("explicit", Dates[today] \o Fmt03d(n))
        /\ UNCHANGED <<cache, allocated, today>>

\* PandoraDatabase(run_id=None, writing_mode=False)
ConstructReading ==
    /\ allocResult' = AllocOutcome("latest", LatestRunIdForDate(Dates[today], cache))
    /\ UNCHANGED <<cache, allocated, today>>

\* Midnight passes.
NextDay ==
    /\ today < Len(Dates)
    /\ today' = today + 1
    /\ allocResult' = [status |-> "none", run_id |-> <<>>, date |-> Dates[today'], pre |-> cache]
    /\ UNCHANGED <<cache, allocated>>

\* The cache the first k constructions of the first date leave behind.
PriorCache(k) == [i \in 1..k |-> Date1 \o Fmt03d(i)]

CacheInit ==
    /\ \E k \in PriorRuns : cache = PriorCache(k)
    /\ allocated = <<>>
    /\ today = 1
    /\ allocResult = [status |-> "none", run_id |-> <<>>, date |-> Date1, pre |-> cache]

CacheFrozen ==
    /\ cache = <<>>
    /\ allocated = <<>>
    /\ today = 1
    /\ allocResult = [status |-> "none", run_id |-> <<>>, date |-> Date1, pre |-> <<>>]

(***************************************************************************)
(* Rate-limited device objects: pandora/utils/operation_timer.py with        *)
(* FlipMountState and ShutterState activate(), deactivate(), __init__.       *)
(* One device object is driven at a time; time is in ticks of 100 ms.       *)
(***************************************************************************)
MaxNow == 12          \* the clock stops here

\* min_interval = 1/max_operation_freq: 2 Hz for a flip mount, 10 Hz for the
\* shutter.
FlipMinInterval == 5
ShutterMinInterval == 1
MinInterval(d) == IF d = "flip" THEN FlipMinInterval ELSE ShutterMinInterval

\* can_operate(): elapsed_time >= min_interval.
CanOperate(d, last, t) == t - last >= MinInterval(d)

\* sleep_through_remaining_interval(): time.sleep(min_interval - elapsed_time).
SleepNever(d, last, t) == 0
SleepThroughRemaining(d, last, t) == MinInterval(d) - (t - last)

\* "if not self.timer.can_operate(): self.timer.sleep_through_remaining_interval()":
\* the time at which the body of activate()/deactivate() runs; time.sleep may
\* take `over` ticks longer than asked.
TimeOfBody(d, last, t, over) ==
    IF CanOperate(d, last, t) THEN t
    ELSE t + SleepThroughRemaining(d, last, t) + over

\* update_last_operation_time() is called in the branch that sends a command
\* and in no other.
TimerAfterAlways(last, t, sent) == t
TimerAfter(last, t, sent) == IF sent THEN t ELSE last

\* What a read of the device's line may give: the level that was written, or
\* anything on a line that does not follow the writes; or the read fails.
DevRead ==
    IF dev = "flip" /\ powered THEN LineRead(fmLine) ELSE ReadOutcomes

\* The state of the driven device object.
DevState == IF dev = "flip" THEN fmState ELSE shutterState

\* activate() / deactivate() of either class: the state it leaves and whether
\* it writes the line.
DevOperate(op, s, rd) ==
    IF dev = "flip"
    THEN (IF op = "activate" THEN FlipActivate(s, rd) ELSE FlipDeactivate(s, rd))
    ELSE LET g == IF s = "idle" THEN ShutterGetState(s, rd) ELSE s
             n == IF op = "activate" THEN ShutterActivate(s, rd)
                  ELSE ShutterDeactivate(s, rd)
         IN  [state |-> n, write |-> (n # g)]

NoCall ==
    [op |-> "none", status |-> "ok", pre |-> "uninitialized", preLast |-> 0,
     sent |-> FALSE, slept |-> FALSE]

\* The variables of the device object after a call left it in state s.
DevStateBecomes(s) ==
    IF dev = "flip"
    THEN fmState' = s /\ UNCHANGED shutterState
    ELSE shutterState' = s /\ UNCHANGED fmState

\* activate() or deactivate() on the device object.
DevCommand ==
    \E op \in {"activate", "deactivate"}, rd \in DevRead, wr \in WriteOutcomes,
       over \in {0, 1} :
        LET t == TimeOfBody(dev, tmLast, now, over)
            r == DevOperate(op, DevState, rd)
            raised == r.write /\ wr = "raise"
            sent == r.write /\ ~raised
        IN  /\ t <= MaxNow
            /\ over = 1 => ~CanOperate(dev, tmLast, now)
            /\ now' = t
            /\ DevStateBecomes(
                   IF raised
                   THEN (IF DevState = "idle"
                         THEN (IF dev = "flip" THEN FlipGetState(DevState, rd)
                               ELSE ShutterGetState(DevState, rd))
                         ELSE DevState)
                   ELSE r.state)
            /\ fmLine' = (IF dev = "flip" /\ sent
                          THEN (IF op = "activate" THEN 0 ELSE 1) ELSE fmLine)
            /\ tmLast' = TimerAfter(tmLast, t, sent)
            /\ cmdPrev' = (IF sent THEN cmdLast ELSE cmdPrev)
            /\ cmdLast' = (IF sent THEN t ELSE cmdLast)
            /\ devCall' = [op |-> op, status |-> IF raised THEN "raised" ELSE "ok",
                           pre |-> DevState, preLast |-> tmLast, sent |-> sent,
                           slept |-> ~CanOperate(dev, tmLast, now)]
            /\ UNCHANGED <<dev, powered>>

\* reset(): FAULT -> IDLE.
DevReset ==
    /\ DevState = "fault"
    /\ DevStateBecomes("idle")
    /\ devCall' = [NoCall EXCEPT !.op = "reset", !.pre = DevState,
                                 !.preLast = tmLast]
    /\ UNCHANGED <<dev, powered, now, tmLast, cmdPrev, cmdLast, fmLine>>

\* FlipMountState(labjack_port, labjack): a new device object on the same line.
\* __init__ makes the timer and calls initialize(): set_state(IDLE),
\* get_state(), timer.update_last_operation_time(). No line is written and no
\* exception of its own is raised.
FlipConstruct ==
    /\ dev = "flip"
    /\ \E rd \in DevRead :
           fmState' = FlipGetState(FlipSetState("uninitialized", "idle"), rd)
    /\ tmLast' = now
    /\ cmdPrev' = -1
    /\ cmdLast' = -1
    /\ devCall' = [NoCall EXCEPT !.op = "construct", !.pre = "uninitialized",
                                 !.preLast = now]
    /\ UNCHANGED <<dev, powered, now, fmLine, shutterState>>

\* Time passes between calls.
Tick ==
    /\ now < MaxNow
    /\ now' = now + 1
    /\ UNCHANGED <<dev, powered, tmLast, cmdPrev, cmdLast, devCall, fmState,
                   fmLine, shutterState>>

\* After construction of the device object. ShutterState.initialize() also
\* calls activate(), which writes the line when the shutter was read open.
TimerInit ==
    /\ dev \in {"flip", "shutter"}
    /\ powered \in BOOLEAN
    /\ dev = "shutter" => powered
    /\ now = 0
    /\ tmLast = 0
    /\ cmdPrev = -1
    /\ fmLine \in (IF dev = "flip" THEN {0, 1} ELSE {1})
    /\ IF dev = "flip"
       THEN /\ \E rd \in DevRead :
                   fmState = FlipGetState(FlipSetState("uninitialized", "idle"), rd)
            /\ shutterState = "on"
            /\ cmdLast = -1
            /\ devCall = [NoCall EXCEPT !.op = "construct"]
       ELSE /\ fmState = "off"
            /\ \E rd \in ReadOutcomes :
                   LET g == ShutterGetState(ShutterSetState("uninitialized", "idle"), rd)
                   IN  /\ shutterState = ShutterActivate(g, rd)
                       /\ cmdLast = (IF g = "off" THEN 0 ELSE -1)
                       /\ devCall = [NoCall EXCEPT !.op = "construct",
                                                   !.sent = (g = "off")]

TimerFrozen ==
    /\ dev = "flip"
    /\ powered = TRUE
    /\ now = 0
    /\ tmLast = 0
    /\ cmdPrev = -1
    /\ cmdLast = -1
    /\ devCall = NoCall

(***************************************************************************)
(* The devices PandoraBox owns and PandoraBox.close_all_connections         *)
(* (pandora/pandora_controller.py), with the close() of each device class.  *)
(***************************************************************************)
\* self.flipMountNames
FlipMountNames ==
    <<"flipOrderBlockFilter", "flipOD2First", "flipOD2Second", "flipPD2">>

\* The flip mounts of flipMountNames[1:], the ones _save_exposure records.
OtherFlipMounts == {FlipMountNames[i] : i \in 2..Len(FlipMountNames)}

\* The attributes of self.keysight whose name starts with 'k', as dir() lists
\* them.
KeysightNames == <<"k1", "k2">>

\* ShutterState.close(): activate(), set_state(UNINITIALIZED), get_state().
\* The state it leaves and whether the line was written low.
ShutterClose(s) ==
    LET a == ShutterActivate(s, "err")
    IN  [state |-> ShutterSetState(a, "uninitialized"),
         write |-> (s = "off")]

\* close_all_connections is called.
CloseAllConnections ==
    /\ closePc = "idle"
    /\ closePc' = "monochromator"
    /\ UNCHANGED <<flips, shutterClosed, monoOpen, ksOpen, ksInput, zaberOpen,
                   labjackOpen, closeIdx, closeLog, fmState, fmLine, shutterState>>

\* "Close monochromator connection if exists": MonochromatorController.close()
\* closes the serial port when it is open and sets ser = None.
CloseMonochromator ==
    /\ closePc = "monochromator"
    /\ monoOpen' = FALSE
    /\ closeLog' = Append(closeLog, "monochromator")
    /\ closePc' = "shutter"
    /\ UNCHANGED <<flips, shutterClosed, ksOpen, ksInput, zaberOpen, labjackOpen,
                   closeIdx, fmState, fmLine, shutterState>>

\* "Close shutter connection": self.shutter.close().
CloseShutter ==
    /\ closePc = "shutter"
    /\ LET c == ShutterClose(shutterState)
       IN  /\ shutterState' = c.state
           /\ shutterClosed' = (c.write \/ shutterClosed)
    /\ closeLog' = Append(closeLog, "shutter")
    /\ closePc' = "flipmounts"
    /\ closeIdx' = 1
    /\ UNCHANGED <<flips, monoOpen, ksOpen, ksInput, zaberOpen, labjackOpen,
                   fmState, fmLine>>

\* "Close flip mount connections": one turn of the loop over flipMountNames,
\* fm.close() is deactivate(), set_state(UNINITIALIZED), get_state().
CloseFlipMount ==
    /\ closePc = "flipmounts"
    /\ LET name == FlipMountNames[closeIdx]
           s == IF closeIdx = 1 THEN fmState ELSE flips[name]
           f == FlipDeactivate(s, "err")
           after == FlipSetState(f.state, "uninitialized")
       IN  /\ IF closeIdx = 1
              THEN /\ fmState' = after
                   /\ fmLine' = (IF f.write THEN 1 ELSE fmLine)
                   /\ UNCHANGED flips
              ELSE /\ flips' = [flips EXCEPT ![name] = after]
                   /\ UNCHANGED <<fmState, fmLine>>
           /\ closeLog' = Append(closeLog, name)
    /\ IF closeIdx < Len(FlipMountNames)
       THEN closeIdx' = closeIdx + 1 /\ UNCHANGED closePc
       ELSE closeIdx' = 1 /\ closePc' = "keysights"
    /\ UNCHANGED <<shutterClosed, monoOpen, ksOpen, ksInput, zaberOpen,
                   labjackOpen, shutterState>>

\* "Close keysight connections": one turn of the loop; KeysightController.close()
\* closes the VISA connection and sends nothing to the instrument.
CloseKeysight ==
    /\ closePc = "keysights"
    /\ LET name == KeysightNames[closeIdx]
       IN  /\ ksOpen' = [ksOpen EXCEPT ![name] = FALSE]
           /\ closeLog' = Append(closeLog, name)
    /\ IF closeIdx < Len(KeysightNames)
       THEN closeIdx' = closeIdx + 1 /\ UNCHANGED closePc
       ELSE closeIdx' = 1 /\ closePc' = "labjack"
    /\ UNCHANGED <<flips, shutterClosed, monoOpen, ksInput, zaberOpen,
                   labjackOpen, fmState, fmLine, shutterState>>

\* The Zaber stages are passed over ("TODO"), PandoraBox has no spectrograph
\* attribute; "Close LabJack connection": self.labjack.close(), and the call
\* returns.
CloseLabJack ==
    /\ closePc = "labjack"
    /\ labjackOpen' = FALSE
    /\ closeLog' = Append(closeLog, "labjack")
    /\ closePc' = "done"
    /\ UNCHANGED <<flips, shutterClosed, monoOpen, ksOpen, ksInput, zaberOpen,
                   closeIdx, fmState, fmLine, shutterState>>

\* After initialize_subsystems(): every device is connected, the electrometer
\* inputs are on (KeysightController.initialize calls on()), zaberNDFilter is
\* there if init_zaber; the monochromator port is open unless the connection
\* failed. The shutter and the flip mounts are where use has left them.
CloseInit ==
    /\ flips \in [OtherFlipMounts -> {"on", "off", "fault"}]
    /\ shutterState \in {"on", "off", "fault"}
    /\ shutterClosed \in (IF shutterState = "on" THEN {TRUE}
                          ELSE IF shutterState = "off" THEN {FALSE} ELSE BOOLEAN)
    /\ monoOpen \in BOOLEAN
    /\ ksOpen = [k \in Range(KeysightNames) |-> TRUE]
    /\ ksInput = [k \in Range(KeysightNames) |-> TRUE]
    /\ zaberOpen \in BOOLEAN
    /\ labjackOpen = TRUE
    /\ closePc = "idle"
    /\ closeIdx = 1
    /\ closeLog = <<>>

CloseFrozen ==
    /\ flips = [n \in OtherFlipMounts |-> "off"]
    /\ shutterClosed = TRUE
    /\ monoOpen = TRUE
    /\ ksOpen = [k \in Range(KeysightNames) |-> TRUE]
    /\ ksInput = [k \in Range(KeysightNames) |-> TRUE]
    /\ zaberOpen = TRUE
    /\ labjackOpen = TRUE
    /\ closePc = "idle"
    /\ closeIdx = 1
    /\ closeLog = <<>>

(***************************************************************************)
(* PandoraBox.wavelength_scan (pandora/pandora_controller.py)               *)
(***************************************************************************)
MaxScanWavs == 2      \* wavelengths of a scan
MaxRepeats == 2       \* nrepeats of a scan
MaxScanOverflows == 1 \* overflowing readings during a scan

\* First wavelengths of a scan, in nm; the step is 1 nm.
ScanStarts == {500, 700}

\* The body of "for _ in range(nrepeats)": take_dark, take_exposure, take_dark.
ScanStepsLightDark == <<"light", "dark">>
ScanSteps == <<"dark", "light", "dark">>

\* wavelengthScan = np.arange(start, end+step, step), for a step of 1 nm.
ScanWavelength(start, i) == start + (i - 1)

ScanCall(op, arg) == [op |-> op, arg |-> arg]

\* set_photodiode_scale(keysight_id) without scale: open_shutter(),
\* ks.auto_scale(), close_shutter(); what it does to the shutter.
ScaleShutter(s, rd) ==
    ApplyShutterCall("close_shutter", ApplyShutterCall("open_shutter", s, rd), rd)

NoScan == [start |-> 0, n |-> 0, r |-> 0]

\* wavelength_scan(start, end, step, exptime, nrepeats=r) is called:
\* set_wavelength(start-10), set_photodiode_scale(keysight_id=1) and (2).
\* An exception of set_wavelength ends the scan.
WavelengthScan ==
    /\ scanPc = "idle"
    /\ stack = <<>>
    /\ \E start \in ScanStarts, n \in 1..MaxScanWavs, r \in 1..MaxRepeats :
           /\ scanArgs' = [start |-> start, n |-> n, r |-> r]
           /\ SetWavelengthTo(start - 10)
           /\ scanLog' = <<ScanCall("set_wavelength", start - 10)>>
                         \o (IF swResult'.status = "raised" THEN <<>>
                             ELSE <<ScanCall("set_photodiode_scale", 1),
                                    ScanCall("set_photodiode_scale", 2)>>)
    /\ IF swResult'.status = "raised"
       THEN scanPc' = "raised" /\ UNCHANGED shutterState
       ELSE /\ scanPc' = "set_wavelength"
            /\ \E rd \in ReadOutcomes :
                   shutterState' = ScaleShutter(ScaleShutter(shutterState, rd), rd)
    /\ scanW' = 1
    /\ scanRep' = 1
    /\ scanStep' = 1
    /\ scanStartLen' = Len(run_db)
    /\ UNCHANGED <<dbVars, stack, clock, trace, nAuto, nInv, reqs, reqStartLen>>

\* "for wav in wavelengthScan: self.set_wavelength(wav)"
ScanSetWavelength ==
    /\ scanPc = "set_wavelength"
    /\ stack = <<>>
    /\ LET wav == ScanWavelength(scanArgs.start, scanW)
       IN  /\ SetWavelengthTo(wav)
           /\ scanLog' = Append(scanLog, ScanCall("set_wavelength", wav))
    /\ scanPc' = (IF swResult'.status = "raised" THEN "raised" ELSE "take")
    /\ scanRep' = 1
    /\ scanStep' = 1
    /\ UNCHANGED <<dbVars, expVars, scanArgs, scanW, scanStartLen>>

\* The next call of the loop body: take_dark(exptime) is
\* take_exposure(exptime, is_dark=True). The loops go on when it returns.
ScanTake ==
    /\ scanPc = "take"
    /\ stack = <<>>
    /\ CallTakeExposure(ScanSteps[scanStep] = "dark")
    /\ scanLog' = Append(scanLog, ScanCall(ScanSteps[scanStep], 0))
    /\ IF scanStep < Len(ScanSteps)
       THEN /\ scanStep' = scanStep + 1
            /\ UNCHANGED <<scanRep, scanW, scanPc>>
       ELSE IF scanRep < scanArgs.r
       THEN /\ scanStep' = 1
            /\ scanRep' = scanRep + 1
            /\ UNCHANGED <<scanW, scanPc>>
       ELSE IF scanW < scanArgs.n
       THEN /\ scanStep' = 1
            /\ scanRep' = 1
            /\ scanW' = scanW + 1
            /\ scanPc' = "set_wavelength"
       ELSE /\ scanPc' = "return"
            /\ UNCHANGED <<scanStep, scanRep, scanW>>
    /\ UNCHANGED <<wavVars, scanArgs, scanStartLen>>

\* The overflows of the first electrometer in the scan so far: each is in a
\* row or in an invocation that has not saved yet.
ScanOverflows ==
    Cardinality({i \in (scanStartLen + 1)..Len(run_db) :
                    IsOverflow(run_db[i].currentInput)})
    + Cardinality({j \in 1..Len(stack) :
                      stack[j].d1 # <<>> /\ IsOverflow(stack[j].d1[1])})

\* d1, d2 of an exposure of a scan: the second electrometer never overflows,
\* the first at most MaxScanOverflows times.
ScanRead ==
    IF ScanOverflows < MaxScanOverflows
    THEN ExpReadFrom(MeanExps, {OverflowExp})
    ELSE ExpReadFrom({OverflowExp}, {OverflowExp})

\* wavelength_scan returns.
ScanReturn ==
    /\ scanPc = "return"
    /\ stack = <<>>
    /\ scanPc' = "done"
    /\ UNCHANGED <<dbVars, expVars, wavVars, scanArgs, scanW, scanRep, scanStep,
                   scanLog, scanStartLen>>

ScanInit ==
    /\ scanPc = "idle"
    /\ scanArgs = NoScan
    /\ scanW = 1
    /\ scanRep = 1
    /\ scanStep = 1
    /\ scanLog = <<>>
    /\ scanStartLen = 0

ScanFrozen == ScanInit

(***************************************************************************)
(* Charge exposure: PandoraBox.take_charge_exposure, _save_charge_exposure *)
(* (pandora/pandora_controller.py)                                         *)
(***************************************************************************)
MaxSamples == 2
MaxChargeRequests == 2

\* _save_charge_exposure: the pdb.add calls for sample i, in order, each with
\* the Python type of its value.
ChargeAdds(i, is_dark) ==
    <<[key |-> "exptime", t |-> "float", v |-> 1],
      [key |-> "timestamp", t |-> "datetime", v |-> clock],
      [key |-> "effective_exptime", t |-> "float", v |-> 1],
      [key |-> "sampleTime", t |-> "float", v |-> i - 1],
      [key |-> "wavelength", t |-> "float", v |-> pbWavelength],
      [key |-> "chargeInput", t |-> "float", v |-> 5],
      [key |-> "chargeOutput", t |-> "float", v |-> 5],
      [key |-> "shutter", t |-> "bool", v |-> PyBool(~is_dark)],
      [key |-> "measurementMode", t |-> "str", v |-> "CHAR"],
      [key |-> "flipOD2First", t |-> "bool", v |-> PyBool(flips["flipOD2First"] = "on")],
      [key |-> "flipOD2Second", t |-> "bool", v |-> PyBool(flips["flipOD2Second"] = "on")],
      [key |-> "flipPD2", t |-> "bool", v |-> PyBool(flips["flipPD2"] = "on")],
      [key |-> "ndFilter", t |-> "str", v |-> "DISABLED"],
      [key |-> "Description", t |-> "str", v |-> "charge"]>>

\* A run of pdb.add calls: the first one that raises ends the run.
RECURSIVE DbAddAll(_, _)
DbAddAll(staged, adds) ==
    IF adds = <<>>
    THEN [status |-> "ok", current_exposure |-> staged]
    ELSE LET r == DbAdd(staged, Head(adds).key, Head(adds).t, Head(adds).v)
         IN  IF r.status # "ok" THEN r ELSE DbAddAll(r.current_exposure, Tail(adds))

\* take_charge_exposure, "for i in range(len(d1['CHAR']))": the database after
\* samples i..n were handed to _save_charge_exposure, which stages the sample
\* and ends in write_exposure(); an exception of add() ends the loop.
RECURSIVE SaveChargeSamples(_, _, _, _)
SaveChargeSamples(d, i, n, is_dark) ==
    IF i > n
    THEN d
    ELSE LET r == DbAddAll(d.current_exposure, ChargeAdds(i, is_dark))
         IN  IF r.status # "ok"
             THEN [d EXCEPT !.status = r.status,
                            !.current_exposure = r.current_exposure]
             ELSE LET w == WriteExposure(d.run_db, d.current_expid, r.current_exposure)
                  IN  SaveChargeSamples(
                          [status |-> "ok", run_db |-> w.run_db,
                           current_expid |-> w.current_expid, run_csv |-> w.run_csv,
                           current_exposure |-> w.current_exposure],
                          i + 1, n, is_dark)

\* take_charge_exposure(exptime, is_dark=is_dark) called by the operator.
TakeChargeExposure ==
    /\ chargePc = "idle"
    /\ chargeReqs < MaxChargeRequests
    /\ \E is_dark \in BOOLEAN :
          chargeArgs' = [is_dark |-> is_dark, warning |-> FALSE]
    /\ chargePc' = "begin"
    /\ chargeN' = 0
    /\ chargeStatus' = "running"
    /\ chargeStartLen' = Len(run_db)
    /\ chargeReqs' = chargeReqs + 1
    /\ UNCHANGED <<dbVars, expVars>>

\* Inputs on, acquisition time, timestamp, shutter, timer mark, discharge,
\* acquire.
ChargeBegin ==
    /\ chargePc = "begin"
    /\ \E rd \in ReadOutcomes :
          shutterState' = ApplyShutterCall(ShutterCall(chargeArgs.is_dark),
                                           shutterState, rd)
    /\ clock' = clock + 1
    /\ chargePc' = "sleep"
    /\ UNCHANGED <<dbVars, stack, trace, nAuto, nInv, reqs, reqStartLen,
                   chargeArgs, chargeN, chargeStatus, chargeStartLen, chargeReqs>>

\* self.timer.sleep(exptime); self.close_shutter()
ChargeClose ==
    /\ chargePc = "sleep"
    /\ \E rd \in ReadOutcomes :
          shutterState' = ApplyShutterCall("close_shutter", shutterState, rd)
    /\ chargePc' = "read"
    /\ UNCHANGED <<dbVars, stack, clock, trace, nAuto, nInv, reqs, reqStartLen,
                   chargeArgs, chargeN, chargeStatus, chargeStartLen, chargeReqs>>

\* read_data of both electrometers (n samples each, the means m1 and m2) and
\* the overflow checks: an overflow without warning auto-scales, calls
\* take_charge_exposure(..., warning=True) and returns what that call does.
ChargeRead ==
    /\ chargePc = "read"
    /\ \E n \in 1..MaxSamples, m1 \in MeanExps, m2 \in MeanExps :
          /\ chargeN' = n
          /\ IF RetryNeeded(m1, chargeArgs.warning) \/ RetryNeeded(m2, chargeArgs.warning)
             THEN /\ chargeArgs' = [chargeArgs EXCEPT !.warning = TRUE]
                  /\ chargePc' = "begin"
             ELSE /\ chargePc' = "save"
                  /\ UNCHANGED chargeArgs
    /\ UNCHANGED <<dbVars, expVars, chargeStatus, chargeStartLen, chargeReqs>>

\* The loop that saves every data point; then take_charge_exposure returns,
\* or the exception of add() leaves it.
ChargeSave ==
    /\ chargePc = "save"
    /\ LET d == SaveChargeSamples(
                    [status |-> "ok", run_db |-> run_db,
                     current_expid |-> current_expid, run_csv |-> run_csv,
                     current_exposure |-> current_exposure],
                    1, chargeN, chargeArgs.is_dark)
       IN  /\ run_db' = d.run_db
           /\ current_expid' = d.current_expid
           /\ run_csv' = d.run_csv
           /\ current_exposure' = d.current_exposure
           /\ chargeStatus' = IF d.status = "ok" THEN "returned" ELSE d.status
           /\ addResult' = d.status
    /\ chargePc' = "idle"
    /\ UNCHANGED <<fresh, openLen, stagedSince, rowStaged, expVars,
                   chargeArgs, chargeN, chargeStartLen, chargeReqs>>

ChargeInit ==
    /\ chargePc = "idle"
    /\ chargeArgs = [is_dark |-> FALSE, warning |-> FALSE]
    /\ chargeN = 0
    /\ chargeStatus = "none"
    /\ chargeStartLen = 0
    /\ chargeReqs = 0

ChargeFrozen == ChargeInit

(***************************************************************************)
(* Electrometer transport: KeysightController.write, read, _connect        *)
(* (pandora/controller/keysight.py)                                        *)
(***************************************************************************)
\* _connect: the port is closed (ConnectionError is raised), open_resource
\* raises (logged, instrument = None, the call returns), or the resource opens.
ConnectOutcomes == {"unreachable", "open_failed", "ok"}

\* self.instrument.write(message) / .query(message) on an open resource.
TransportOutcomes == {"ok", "VisaIOError"}

Messages == {":INP ON", ":INIT:ACQ", "*OPC?"}

\* self.instrument after _connect.
Connected(c) == IF c = "ok" THEN "open" ELSE None

\* "except pyvisa.errors.VisaIOError": _reconnect(), then the same transport
\* call once more, outside any try.  c: how _connect goes; t: how the second
\* transport call goes.
AfterVisaErrorSwallowed(c, t) ==
    [instrument |-> Connected(c), reconnect |-> c, reconnects |-> 1,
     retries |-> IF c = "unreachable" THEN 0 ELSE 1,
     retry |-> IF c = "ok" THEN t ELSE "none",
     status |-> "ok"]
AfterVisaError(c, t) ==
    IF c = "unreachable"
    THEN [instrument |-> None, reconnect |-> c, reconnects |-> 1, retries |-> 0,
          retry |-> "none", status |-> "ConnectionError"]
    ELSE IF c = "open_failed"
    THEN [instrument |-> None, reconnect |-> c, reconnects |-> 1, retries |-> 1,
          retry |-> "none", status |-> "AttributeError"]
    ELSE [instrument |-> "open", reconnect |-> c, reconnects |-> 1, retries |-> 1,
          retry |-> t, status |-> t]

\* write(message) / read(message).  c0: how _connect goes if the instrument
\* is None at the call; t1: the first transport call; c1, t2: what follows a
\* VisaIOError.  reconnects and retries count what follows the first
\* transport call.
Transfer(instr, c0, t1, c1, t2) ==
    LET none == [reconnect |-> "none", reconnects |-> 0, retries |-> 0,
                 retry |-> "none"]
    IN  IF instr = None /\ c0 = "unreachable"
        THEN none @@ [instrument |-> None, first |-> "none",
                      status |-> "ConnectionError"]
        ELSE IF instr = None /\ c0 = "open_failed"
        THEN none @@ [instrument |-> None, first |-> "none",
                      status |-> "AttributeError"]
        ELSE IF t1 = "ok"
        THEN none @@ [instrument |-> "open", first |-> "ok", status |-> "ok"]
        ELSE AfterVisaError(c1, t2) @@ [first |-> "VisaIOError"]

KsTransfer(op) ==
    \E msg \in Messages, c0 \in ConnectOutcomes, t1 \in TransportOutcomes,
       c1 \in ConnectOutcomes, t2 \in TransportOutcomes :
        LET r == Transfer(ksInstrument, c0, t1, c1, t2)
        IN  /\ ksInstrument' = r.instrument
            /\ ksDelivered' = IF r.status = "ok" THEN msg ELSE ksDelivered
            /\ ksCall' = [op |-> op, msg |-> msg, first |-> r.first,
                          reconnect |-> r.reconnect, reconnects |-> r.reconnects,
                          retries |-> r.retries, retry |-> r.retry,
                          status |-> r.status]

\* write(message)
KsWrite == KsTransfer("write")

\* read(message)
KsRead == KsTransfer("read")

NoKsCall ==
    [op |-> "none", msg |-> "", first |-> "none", reconnect |-> "none",
     reconnects |-> 0, retries |-> 0, retry |-> "none", status |-> "none"]

KsInit ==
    /\ ksInstrument = "open"
    /\ ksDelivered = ""
    /\ ksCall = NoKsCall

(***************************************************************************)
(* Range search: KeysightController.auto_scale, auto_scale_charge          *)
(* (pandora/controller/keysight.py).  Rung i of a ladder is the range      *)
(* 2 * 10^(i-1) in units of the ladder's lowest decade (1 pA, 1 nC); a     *)
(* magnitude [m, e] is (m / 10) * 10^e in the same unit, m = 0 being zero. *)
(***************************************************************************)
\* len(AVAILABLE_RANGES), len(CHARGE_RANGES)
Rungs(mode) == IF mode = "CURR" THEN 10 ELSE 4

\* AVAILABLE_RANGES.index(2e-5), CHARGE_RANGES.index(2e-8), counted from 1
DefaultRung(mode) == IF mode = "CURR" THEN 8 ELSE 2

\* "for iteration in range(15)", "for iteration in range(10)"
MaxIterations(mode) == IF mode = "CURR" THEN 15 ELSE 10

\* The signals of the model: zero, and two-digit magnitudes around the
\* thresholds of every rung, below the lowest and above the highest.
Mantissas == {10, 16, 17, 21, 99}
Signals ==
    {[m |-> 0, e |-> 0]} \cup {[m |-> m, e |-> e] : m \in Mantissas, e \in -2..10}

\* What read_data gives on rung i: the signal, or the instrument's overflow
\* value 9.9e37 if the signal is beyond the range.
OverRange == [m |-> 99, e |-> 49]
Measured(v, i) ==
    IF v.m # 0 /\ (v.e > i - 1 \/ (v.e = i - 1 /\ v.m > 20)) THEN OverRange ELSE v

\* "if value > 0.80 * rang": 0.8 * 2 * 10^(i-1) = 1.6 * 10^(i-1)
AboveEightyOverflowOnly(v, i) == v.m # 0 /\ v.e > i - 1
AboveEighty(v, i) == v.m # 0 /\ (v.e > i - 1 \/ (v.e = i - 1 /\ v.m > 16))

\* "elif value < 0.05 * rang": 0.05 * 2 * 10^(i-1) = 1.0 * 10^(i-2)
BelowFive(v, i) == v.m = 0 \/ v.e < i - 2

\* The start arguments: every rung of the ladder, and 0 for a rang0 that is
\* not in the list.
StartRung(mode, rang0) == IF rang0 \in 1..Rungs(mode) THEN rang0 ELSE DefaultRung(mode)

\* auto_scale(rang0) / auto_scale_charge(rang0) is called.
AutoScale ==
    /\ asPc \in {"idle", "returned"}
    /\ \E mode \in {"CURR", "CHAR"} :
          /\ asMode' = mode
          /\ \E rang0 \in 0..Rungs(mode) : asIdx' = StartRung(mode, rang0)
    /\ asSignal' \in Signals
    /\ asIter' = 0
    /\ asPc' = "loop"
    /\ UNCHANGED asSet

\* One turn of the loop: set_rang, acquire, read_data, the thresholds.  A
\* "continue" in the last turn of range(...) ends the loop as a "break" does.
AutoScaleStep ==
    /\ asPc = "loop"
    /\ asIter < MaxIterations(asMode)
    /\ asSet' = asIdx
    /\ asIter' = asIter + 1
    /\ LET value == Measured(asSignal, asIdx)
           again == IF asIter + 1 < MaxIterations(asMode) THEN "loop" ELSE "set"
       IN  IF AboveEighty(value, asIdx) /\ asIdx < Rungs(asMode)
           THEN asIdx' = asIdx + 1 /\ asPc' = again
           ELSE IF ~AboveEighty(value, asIdx) /\ BelowFive(value, asIdx) /\ asIdx > 1
           THEN asIdx' = asIdx - 1 /\ asPc' = again
           ELSE asIdx' = asIdx /\ asPc' = "set"
    /\ UNCHANGED <<asMode, asSignal>>

\* "Ensure we're set to the final determined range", and return it.
AutoScaleReturn ==
    /\ asPc = "set"
    /\ asSet' = asIdx
    /\ asPc' = "returned"
    /\ UNCHANGED <<asMode, asSignal, asIdx, asIter>>

AutoInit ==
    /\ asPc = "idle"
    /\ asMode = "CURR"
    /\ asSignal = [m |-> 0, e |-> 0]
    /\ asIdx = DefaultRung("CURR")
    /\ asIter = 0
    /\ asSet = DefaultRung("CURR")

AutoFrozen == AutoInit

(***************************************************************************)
(* LabJack digital writes: LabJack.send_high_signal, send_low_signal,      *)
(* write, reset, initialize (pandora/states/labjack_handler.py)            *)
(***************************************************************************)
MaxLjWrites == 3

LjPorts == {"FIO0", "FIO1"}

\* send_high_signal(port_name) or send_low_signal(port_name) is called.
LjSend ==
    /\ ljPc = "idle"
    /\ \E port \in LjPorts, value \in {0, 1} :
          ljArgs' = [port |-> port, value |-> value]
    /\ ljPc' = "write"
    /\ ljWrites' = 0
    /\ ljResets' = 0
    /\ ljStatus' = "running"
    /\ UNCHANGED <<ljState, ljLines, ljReadCall>>

\* self.write(port_name, value): the line is set and the call returns, or
\* eWriteName raises, which write() re-raises into the except branch:
\* self.state = "off", then reset().
LjWrite ==
    /\ ljPc = "write"
    /\ ljWrites' = ljWrites + 1
    /\ \/ /\ ljLines' = [ljLines EXCEPT ![ljArgs.port] = ljArgs.value]
          /\ ljPc' = "idle"
          /\ ljStatus' = "returned"
          /\ UNCHANGED ljState
       \/ /\ ljWrites + 1 < MaxLjWrites
          /\ ljState' = "off"
          /\ ljPc' = "reset"
          /\ UNCHANGED <<ljLines, ljStatus>>
    /\ UNCHANGED <<ljArgs, ljResets, ljReadCall>>

\* reset(): sleep, initialize().  If openS succeeds the state is "on" and
\* send_*_signal calls itself; if it raises, reset() re-raises and the
\* exception leaves send_*_signal.
LjReset ==
    /\ ljPc = "reset"
    /\ ljResets' = ljResets + 1
    /\ \/ /\ ljState' = "on"
          /\ ljPc' = "write"
          /\ UNCHANGED ljStatus
       \/ /\ ljState' = "off"
          /\ ljPc' = "idle"
          /\ ljStatus' = "raised"
    /\ UNCHANGED <<ljArgs, ljLines, ljWrites, ljReadCall>>

\* LabJack.read(port_name) of a line at level l.  r1: the first eReadName;
\* rs: initialize() inside reset(); r2: the eReadName of the nested
\* self.read(port_name).  The except branch ends in a bare "raise" on every
\* path, and the nested call's value is not returned.
LabJackRead(l, r1, rs, r2) ==
    IF r1 = "ok"
    THEN [status |-> "returned", value |-> ToString(l), state |-> ljState]
    ELSE IF rs = "raise"
    THEN [status |-> "raised", value |-> "none", state |-> "off"]
    ELSE IF r2 = "ok"
    THEN [status |-> "raised", value |-> "none", state |-> "on"]
    ELSE [status |-> "raised", value |-> "none", state |-> "on"]

NoRead ==
    [pre |-> "none", first |-> "none", reset |-> "none", second |-> "none",
     status |-> "none"]

\* flipOrderBlockFilter.get_state(): int(self.labjack.read(port)), and FAULT
\* if that raises.
LjGetState ==
    /\ ljPc = "idle"
    /\ \E r1 \in {"ok", "fail"}, rs \in {"ok", "raise"}, r2 \in {"ok", "fail"} :
          LET r == LabJackRead(fmLine, r1, rs, r2)
          IN  /\ fmState' = FlipGetState(fmState,
                                IF r.status = "raised" THEN "err" ELSE r.value)
              /\ ljState' = r.state
              /\ ljReadCall' =
                    [pre |-> fmState, first |-> r1,
                     reset |-> IF r1 = "ok" THEN "none" ELSE rs,
                     second |-> IF r1 = "ok" \/ rs = "raise" THEN "none" ELSE r2,
                     status |-> r.status]
    /\ UNCHANGED <<ljPc, ljArgs, ljLines, ljWrites, ljResets, ljStatus,
                   fmLine, pbWavelength, swResult>>

LjInit ==
    /\ ljPc = "idle"
    /\ ljArgs = [port |-> "FIO0", value |-> 0]
    /\ ljState = "on"
    /\ ljLines = [p \in LjPorts |-> 0]
    /\ ljWrites = 0
    /\ ljResets = 0
    /\ ljStatus = "none"
    /\ ljReadCall = NoRead

TransInit == KsInit /\ LjInit

TransFrozen == TransInit

(***************************************************************************)
(* Monochromator wire format: pandora/controller/monochromator.py          *)
(* A wavelength is a whole number of 1/100 nm.                             *)
(***************************************************************************)
MinLambda == 49990
MaxLambda == 50060

Lambdas == MinLambda..MaxLambda

\* move_to_wavelength: wavelength_angstroms = int(wavelength_nm * 10); int()
\* drops the fraction.
Angstroms(c) == c \div 10

\* move_to_wavelength: high_byte = a // 256, low_byte = a % 256
WireBytes(a) == <<a \div 256, a % 256>>

\* get_wavelength: (high_byte << 8) | low_byte, then / 10, in 1/100 nm.
Decode(bytes) == (bytes[1] * 256 + bytes[2]) * 10

\* round(x) of Python for x = c / 10: to the nearest whole number, a tie to the
\* even one.
Round(c) ==
    LET q == c \div 10
        r == c % 10
    IN  IF r < 5 THEN q
        ELSE IF r > 5 THEN q + 1
        ELSE IF q % 2 = 0 THEN q ELSE q + 1

\* move_to_wavelength(wavelength_nm) on a monochromator that answers: the
\* GOTO command carries the two bytes and the grating goes there.
MoveToWavelength ==
    \E c \in Lambdas :
        /\ monoLambda' = c
        /\ monoWire' = WireBytes(Angstroms(c))
        /\ monoDecoded' = -1
        /\ monoPort' = "closed"
        /\ monoOp' = [op |-> "move_to_wavelength", status |-> "returned"]

\* get_wavelength() on a monochromator that answers with its two bytes.
QueryWavelength ==
    /\ monoWire # <<>>
    /\ monoDecoded' = Decode(monoWire)
    /\ monoPort' = "closed"
    /\ monoOp' = [op |-> "get_wavelength", status |-> "returned"]
    /\ UNCHANGED <<monoLambda, monoWire>>

\* connect(): serial.Serial(...) opens the port, or raises SerialException,
\* which is logged and leaves self.ser = None.
PortAfterConnect(port, opens) ==
    IF port = "open" \/ opens THEN "open" ELSE "closed"

\* set_units(unit): connect(), the command, the confirmation bytes; an
\* invalid unit returns False after connect(); no path calls close().  With
\* no port, self.ser.read raises AttributeError inside
\* query_confirmation_bytes.
SetUnits ==
    \E unit \in {"nm", "angstroms", "furlongs"}, opens \in BOOLEAN :
        /\ monoPort' = PortAfterConnect(monoPort, opens)
        /\ monoOp' = [op |-> "set_units",
                      status |-> IF unit = "furlongs" THEN "returned False"
                                 ELSE IF monoPort' = "open" THEN "returned"
                                 ELSE "AttributeError"]
        /\ UNCHANGED <<monoLambda, monoWire, monoDecoded>>

\* change_order(order): connect(); without a port it returns False; else the
\* command and the confirmation bytes; no path calls close().
ChangeOrder ==
    \E order \in {"clockwise", "counterclockwise", "up"}, opens \in BOOLEAN :
        /\ monoPort' = PortAfterConnect(monoPort, opens)
        /\ monoOp' = [op |-> "change_order",
                      status |-> IF monoPort' = "closed" \/ order = "up"
                                 THEN "returned False" ELSE "returned"]
        /\ UNCHANGED <<monoLambda, monoWire, monoDecoded>>

\* scan_wavelength(start_nm, end_nm): connect(), the command, the status
\* byte, close(); without a port it returns at once.
ScanWavelengths ==
    /\ monoPort' = "closed"
    /\ monoOp' = [op |-> "scan_wavelength", status |-> "returned"]
    /\ UNCHANGED <<monoLambda, monoWire, monoDecoded>>

\* go_home() away from home on a port that opens: RESET is sent; if a status
\* byte arrives, "self.logger.bug(...)" raises AttributeError (a Logger has no
\* such method) before close(); if none arrives, close() and get_wavelength().
GoHome ==
    \E answers \in BOOLEAN :
        /\ monoOp' = [op |-> "go_home",
                      status |-> IF answers THEN "AttributeError" ELSE "returned"]
        /\ monoPort' = IF answers THEN "open" ELSE "closed"
        /\ monoWire' = IF answers THEN monoWire ELSE WireBytes(0)
        /\ monoDecoded' = IF answers THEN monoDecoded ELSE Decode(WireBytes(0))
        /\ monoLambda' = IF answers THEN monoLambda ELSE 0

MonoInit ==
    /\ monoLambda = -1
    /\ monoWire = <<>>
    /\ monoDecoded = -1
    /\ monoPort = "closed"
    /\ monoOp = [op |-> "none", status |-> "none"]

MonoFrozen == MonoInit

(***************************************************************************)
(* PandoraBox.get_wavelength (pandora/pandora_controller.py).  The          *)
(* controller's wavelength is kept in nm, the monochromator's in 1/100 nm. *)
(***************************************************************************)
\* Positions the monochromator may have been left at by an earlier session.
QueryLambdas == {50000, 70000}

Nm(c) == c \div 100

NoQuery == [op |-> "none", query |-> FALSE, value |-> -1]

\* MonochromatorController.get_wavelength() sets self.wavelength and closes the
\* port; it has no return statement, so the call evaluates to None, written -1
\* as for the monochromator's own attribute.
MonoGetWavelengthReturn(decoded) == -1

\* get_wavelength(query): with query the monochromator is asked and the value
\* of that call is stored; without it the monochromator's cached attribute is
\* stored.  The stored value is returned.
PbGetWavelength ==
    /\ stack = <<>>
    /\ \E query \in BOOLEAN :
           LET decoded == Decode(monoWire)
               got == IF query THEN MonoGetWavelengthReturn(decoded)
                      ELSE IF monoDecoded = -1 THEN -1 ELSE Nm(monoDecoded)
           IN  /\ IF query
                  THEN /\ monoDecoded' = decoded
                       /\ monoPort' = "closed"
                       /\ monoOp' = [op |-> "get_wavelength", status |-> "returned"]
                  ELSE UNCHANGED <<monoDecoded, monoPort, monoOp>>
               /\ pbWavelength' = got
               /\ pbReturned' = [op |-> "get_wavelength", query |-> query, value |-> got]
    /\ UNCHANGED <<monoLambda, monoWire, fmState, fmLine, swResult>>

QueryInit == pbReturned = NoQuery

QueryFrozen == QueryInit

(***************************************************************************)
(* The wavelengths a scan visits: np.arange in wavelength_scan and          *)
(* charge_wavelength_scan (pandora/pandora_controller.py), in 1/100 nm.     *)
(***************************************************************************)
GridStarts == {50000, 70000}
GridSpans == {0, 100, 200, 300, 500}
GridSteps == {4, 100, 125, 200}
GridKinds == {"wavelength_scan", "charge_wavelength_scan"}

\* np.round(step, 1): to the nearest 0.1 nm, a tie to the even one.
RoundStep(step) == Round(step) * 10

\* np.arange(start, stop, step) for step > 0: ceil((stop - start) / step)
\* values start, start + step, ...
Arange(start, stop, step) ==
    LET len == IF stop > start THEN (stop - start + step - 1) \div step ELSE 0
    IN  [i \in 1..len |-> start + (i - 1) * step]

\* wavelengthScan = np.arange(start, end+step, np.round(step,1))
WavelengthGrid(start, end, step) == Arange(start, end + step, RoundStep(step))

NoGrid == [kind |-> "none", start |-> 0, end |-> 0, step |-> 0]

\* The scan is called: the array is built first; a step that rounds to 0.0
\* makes np.arange raise before any wavelength is set.
GridBegin ==
    /\ gridPc \in {"idle", "done", "raised"}
    /\ \E kind \in GridKinds, start \in GridStarts, span \in GridSpans, step \in GridSteps :
           /\ gridArgs' = [kind |-> kind, start |-> start, end |-> start + span,
                           step |-> step]
           /\ IF RoundStep(step) = 0
              THEN gridPc' = "raised" /\ gridScan' = <<>>
              ELSE /\ gridPc' = "loop"
                   /\ gridScan' = WavelengthGrid(start, start + span, step)
    /\ gridSeen' = <<>>

\* "for wav in wavelengthScan: self.set_wavelength(wav)" and the exposures of
\* that wavelength.
GridVisit ==
    /\ gridPc = "loop"
    /\ Len(gridSeen) < Len(gridScan)
    /\ gridSeen' = Append(gridSeen, gridScan[Len(gridSeen) + 1])
    /\ UNCHANGED <<gridPc, gridArgs, gridScan>>

\* The loop is over and the scan returns.
GridEnd ==
    /\ gridPc = "loop"
    /\ Len(gridSeen) = Len(gridScan)
    /\ gridPc' = "done"
    /\ UNCHANGED <<gridArgs, gridScan, gridSeen>>

GridInit ==
    /\ gridPc = "idle"
    /\ gridArgs = NoGrid
    /\ gridScan = <<>>
    /\ gridSeen = <<>>

GridFrozen == GridInit

(***************************************************************************)
(* The shutter line: initialize_subsystems builds self.shutter =            *)
(* ShutterState(shutter_port) and self.flipShutter =                        *)
(* FlipMountState(shutter_port) on the same port of the same LabJack.       *)
(***************************************************************************)
SharedObjects == {"shutter", "flipShutter"}
SharedOps == {"activate", "deactivate"}

\* activate() / deactivate() of the object: the state it leaves and whether it
\* writes the line (low for activate, high for deactivate).
SharedOperate(obj, op, s, rd) ==
    IF obj = "flipShutter"
    THEN (IF op = "activate" THEN FlipActivate(s, rd) ELSE FlipDeactivate(s, rd))
    ELSE LET g == IF s = "idle" THEN ShutterGetState(s, rd) ELSE s
             n == IF op = "activate" THEN ShutterActivate(s, rd)
                  ELSE ShutterDeactivate(s, rd)
         IN  [state |-> n, write |-> (n # g)]

SharedState(obj) == IF obj = "shutter" THEN slShutter ELSE slFlip

SharedStateBecomes(obj, s) ==
    IF obj = "shutter"
    THEN slShutter' = s /\ UNCHANGED slFlip
    ELSE slFlip' = s /\ UNCHANGED slShutter

\* close_shutter() / open_shutter() of the controller, or activate() /
\* deactivate() of self.flipShutter.
SharedCommand ==
    \E obj \in SharedObjects, op \in SharedOps, rd \in LineRead(slLine) :
        LET r == SharedOperate(obj, op, SharedState(obj), rd)
        IN  /\ SharedStateBecomes(obj, r.state)
            /\ slLine' = IF r.write THEN (IF op = "activate" THEN 0 ELSE 1)
                         ELSE slLine
            /\ slCall' = [obj |-> obj, op |-> op, write |-> r.write]

\* get_state() of either object: one read of the line.
SharedGetState ==
    \E obj \in SharedObjects, rd \in LineRead(slLine) :
        /\ SharedStateBecomes(obj, IF obj = "shutter"
                                   THEN ShutterGetState(slShutter, rd)
                                   ELSE FlipGetState(slFlip, rd))
        /\ slCall' = [obj |-> obj, op |-> "get_state", write |-> FALSE]
        /\ UNCHANGED slLine

\* reset() of either object: FAULT -> IDLE.
SharedReset ==
    \E obj \in SharedObjects :
        /\ SharedStateBecomes(obj, IF SharedState(obj) = "fault" THEN "idle"
                                   ELSE SharedState(obj))
        /\ slCall' = [obj |-> obj, op |-> "reset", write |-> FALSE]
        /\ UNCHANGED slLine

\* Lines 131-134: ShutterState(shutter_port) is IDLE, get_state(), activate();
\* then FlipMountState(shutter_port) is IDLE, get_state().
SharedInit ==
    \E l0 \in {0, 1} :
        \E rd1 \in LineRead(l0) :
            LET s1 == ShutterGetState("idle", rd1)
                l1 == IF s1 = "off" THEN 0 ELSE l0
            IN  /\ slShutter = ShutterActivate(s1, rd1)
                /\ slLine = l1
                /\ \E rd2 \in LineRead(l1) : slFlip = FlipGetState("idle", rd2)
                /\ slCall = [obj |-> "none", op |-> "none", write |-> FALSE]

SharedFrozen ==
    /\ slLine = 0
    /\ slShutter = "on"
    /\ slFlip = "on"
    /\ slCall = [obj |-> "none", op |-> "none", write |-> FALSE]

\* The monochromator as a session finds it: at some wavelength, nothing read yet.
MonoPresent ==
    /\ \E c \in QueryLambdas : monoLambda = c /\ monoWire = WireBytes(Angstroms(c))
    /\ monoDecoded = -1
    /\ monoPort = "closed"
    /\ monoOp = [op |-> "none", status |-> "none"]

(***************************************************************************)
(* ND-filter stage: pandora/controller/zaberstages.py,                     *)
(* PandoraBox.set_nd_filter.  Lengths are in 1/100 mm.                     *)
(***************************************************************************)
MASK_MAP ==
    [ND05 |-> 700, ND10 |-> 4637, ND15 |-> 7957, ND20 |-> 11357, CLEAR |-> 14877]

\* get_current_slot: "if abs(current_position - slot_position) < 0.1"
SlotTolerance == 10

\* How far from its target the stage may stop when move_absolute(...,
\* wait_until_idle=True) returns without raising.
MaxSettleError == 1

Abs(x) == IF x < 0 THEN -x ELSE x

\* The slot names set_nd_filter is called with, one of them not in the map.
SlotArgs == {"ND05", "ND10", "CLEAR", "ND30"}

\* The distances move_zaber_axis is called with.
AxisArgs == {0, 705, 4640}

\* get_current_slot: the first slot within 0.1 mm, else UNKNOWN.
CurrentSlot(pos) ==
    IF \E n \in DOMAIN MASK_MAP : Abs(pos - MASK_MAP[n]) < SlotTolerance
    THEN CHOOSE n \in DOMAIN MASK_MAP : Abs(pos - MASK_MAP[n]) < SlotTolerance
    ELSE "UNKNOWN"

\* move_to_slot with a name that is not in slot_map: the error message reads
\* self.mask_positions, which no ZaberController has.
InvalidSlotReturns(name) == "ok"
InvalidSlot(name) == "AttributeError"

\* Where move_absolute(target, ..., True) may leave the stage when it returns.
Settled(target) == {target + e : e \in (0 - MaxSettleError)..MaxSettleError}

\* set_nd_filter(name) = zaberNDFilter.move_to_slot(name).  conn: whether
\* connect() gets an axis; mv: whether move_absolute returns or raises.
SetNdFilter ==
    \E name \in SlotArgs, conn \in BOOLEAN, mv \in BOOLEAN :
        IF name \notin DOMAIN MASK_MAP
        THEN /\ zbCall' = [op |-> "set_nd_filter", name |-> name,
                           status |-> InvalidSlot(name)]
             /\ UNCHANGED <<zbConnected, zbStage, zbPosition>>
        ELSE IF ~(zbConnected \/ conn)
        THEN /\ zbCall' = [op |-> "set_nd_filter", name |-> name,
                           status |-> "AttributeError"]
             /\ UNCHANGED <<zbConnected, zbStage, zbPosition>>
        ELSE IF ~mv
        THEN /\ zbConnected' = TRUE
             /\ zbStage' \in {zbStage} \cup Settled(MASK_MAP[name])
             /\ zbCall' = [op |-> "set_nd_filter", name |-> name,
                           status |-> "MovementFailed"]
             /\ UNCHANGED zbPosition
        ELSE /\ zbConnected' = TRUE
             /\ zbStage' \in Settled(MASK_MAP[name])
             /\ zbPosition' = name
             /\ zbCall' = [op |-> "set_nd_filter", name |-> name, status |-> "ok"]

\* move_zaber_axis(distance_mm) on a connected stage.
MoveZaberAxis ==
    /\ zbConnected
    /\ \E d \in AxisArgs :
          /\ zbStage' \in Settled(d)
          /\ zbPosition' = ToString(d)
          /\ zbCall' = [op |-> "move_zaber_axis", name |-> ToString(d),
                        status |-> "ok"]
    /\ UNCHANGED zbConnected

\* go_home(): connect(), axis.home(), self.position = 'HOME'.  conn: whether
\* connect() gets an axis when there is none yet.
ZaberGoHome ==
    \E conn \in BOOLEAN :
        IF zbConnected \/ conn
        THEN /\ zbConnected' = TRUE
             /\ zbStage' = 0
             /\ zbPosition' = "HOME"
             /\ zbCall' = [op |-> "go_home", name |-> "", status |-> "ok"]
        ELSE /\ zbConnected' = FALSE
             /\ zbCall' = [op |-> "go_home", name |-> "", status |-> "AttributeError"]
             /\ UNCHANGED <<zbStage, zbPosition>>

\* get_current_slot() on a connected stage.
GetCurrentSlot ==
    /\ zbConnected
    /\ zbPosition' = CurrentSlot(zbStage)
    /\ zbCall' = [op |-> "get_current_slot", name |-> "", status |-> "ok"]
    /\ UNCHANGED <<zbConnected, zbStage>>

\* close()
ZaberClose ==
    /\ zbConnected' = FALSE
    /\ zbCall' = [op |-> "close", name |-> "", status |-> "ok"]
    /\ UNCHANGED <<zbStage, zbPosition>>

\* ZaberController(...): connect, set speed, get_current_slot.
ZaberInit ==
    /\ zbConnected = TRUE
    /\ zbStage \in {0, MASK_MAP["ND05"], MASK_MAP["ND10"] + 5}
    /\ zbPosition = CurrentSlot(zbStage)
    /\ zbCall = [op |-> "none", name |-> "", status |-> "none"]

ZaberFrozen ==
    /\ zbConnected = TRUE
    /\ zbStage = 0
    /\ zbPosition = "UNKNOWN"
    /\ zbCall = [op |-> "none", name |-> "", status |-> "none"]

(***************************************************************************)
(* Specifications, one per subsystem                                       *)
(***************************************************************************)
InitExposure ==
    /\ DbInit /\ ExpInit
    /\ WavFrozen /\ MountFrozen /\ CalibFrozen /\ CacheFrozen
    /\ TimerFrozen /\ CloseFrozen /\ ScanFrozen
    /\ ChargeFrozen
    /\ ZaberFrozen
    /\ MonoFrozen
    /\ TransFrozen
    /\ AutoFrozen
    /\ QueryFrozen
    /\ GridFrozen
    /\ SharedFrozen

NextExposure ==
    \/ TakeExposure /\ UNCHANGED <<wavVars, mountVars, calibVars, cacheVars, timerVars, closeVars, scanVars, chargeVars, zaberVars, monoVars, transVars, autoVars, queryVars, gridVars, sharedVars>>
    \/ ExpBegin /\ UNCHANGED <<wavVars, mountVars, calibVars, cacheVars, timerVars, closeVars, scanVars, chargeVars, zaberVars, monoVars, transVars, autoVars, queryVars, gridVars, sharedVars>>
    \/ ExpArm /\ UNCHANGED <<wavVars, mountVars, calibVars, cacheVars, timerVars, closeVars, scanVars, chargeVars, zaberVars, monoVars, transVars, autoVars, queryVars, gridVars, sharedVars>>
    \/ ExpSleep /\ UNCHANGED <<wavVars, mountVars, calibVars, cacheVars, timerVars, closeVars, scanVars, chargeVars, zaberVars, monoVars, transVars, autoVars, queryVars, gridVars, sharedVars>>
    \/ ExpClose /\ UNCHANGED <<wavVars, mountVars, calibVars, cacheVars, timerVars, closeVars, scanVars, chargeVars, zaberVars, monoVars, transVars, autoVars, queryVars, gridVars, sharedVars>>
    \/ ExpRead /\ UNCHANGED <<wavVars, mountVars, calibVars, cacheVars, timerVars, closeVars, scanVars, chargeVars, zaberVars, monoVars, transVars, autoVars, queryVars, gridVars, sharedVars>>
    \/ ExpCheck1 /\ UNCHANGED <<wavVars, mountVars, calibVars, cacheVars, timerVars, closeVars, scanVars, chargeVars, zaberVars, monoVars, transVars, autoVars, queryVars, gridVars, sharedVars>>
    \/ ExpCheck2 /\ UNCHANGED <<wavVars, mountVars, calibVars, cacheVars, timerVars, closeVars, scanVars, chargeVars, zaberVars, monoVars, transVars, autoVars, queryVars, gridVars, sharedVars>>
    \/ ExpSave /\ UNCHANGED <<wavVars, mountVars, calibVars, cacheVars, timerVars, closeVars, scanVars, chargeVars, zaberVars, monoVars, transVars, autoVars, queryVars, gridVars, sharedVars>>

SpecExposure == InitExposure /\ [][NextExposure]_vars

InitDb ==
    /\ DbInit
    /\ ExpFrozen /\ WavFrozen /\ MountFrozen /\ CalibFrozen /\ CacheFrozen
    /\ TimerFrozen /\ CloseFrozen /\ ScanFrozen
    /\ ChargeFrozen
    /\ ZaberFrozen
    /\ MonoFrozen
    /\ TransFrozen
    /\ AutoFrozen
    /\ QueryFrozen
    /\ GridFrozen
    /\ SharedFrozen

NextDb ==
    \/ Add /\ UNCHANGED <<expVars, wavVars, mountVars, calibVars, cacheVars, timerVars, closeVars, scanVars, chargeVars, zaberVars, monoVars, transVars, autoVars, queryVars, gridVars, sharedVars>>
    \/ Write /\ UNCHANGED <<expVars, wavVars, mountVars, calibVars, cacheVars, timerVars, closeVars, scanVars, chargeVars, zaberVars, monoVars, transVars, autoVars, queryVars, gridVars, sharedVars>>
    \/ Reopen /\ UNCHANGED <<expVars, wavVars, mountVars, calibVars, cacheVars, timerVars, closeVars, scanVars, chargeVars, zaberVars, monoVars, transVars, autoVars, queryVars, gridVars, sharedVars>>

SpecDb == InitDb /\ [][NextDb]_vars

InitDevices ==
    /\ DbFrozen /\ MountFrozen /\ CalibFrozen /\ CacheFrozen
    /\ stack = <<>> /\ clock = 1 /\ trace = <<>> /\ nAuto = [k \in {1, 2} |-> 0]
    /\ nInv = 0 /\ reqs = 0 /\ reqStartLen = 0
    /\ pbWavelength = 0 /\ swResult = NoSw
    /\ TimerInit
    /\ CloseFrozen /\ ScanFrozen
    /\ ChargeFrozen
    /\ ZaberFrozen
    /\ MonoFrozen
    /\ TransFrozen
    /\ AutoFrozen
    /\ QueryFrozen
    /\ GridFrozen
    /\ SharedFrozen

NextDevices ==
    \/ DevCommand /\ UNCHANGED <<dbVars, stack, clock, trace, nAuto, nInv, reqs, reqStartLen, pbWavelength, swResult, mountVars, calibVars, cacheVars, closeVars, scanVars, chargeVars, zaberVars, monoVars, transVars, autoVars, queryVars, gridVars, sharedVars>>
    \/ DevReset /\ UNCHANGED <<dbVars, stack, clock, trace, nAuto, nInv, reqs, reqStartLen, pbWavelength, swResult, mountVars, calibVars, cacheVars, closeVars, scanVars, chargeVars, zaberVars, monoVars, transVars, autoVars, queryVars, gridVars, sharedVars>>
    \/ FlipConstruct /\ UNCHANGED <<dbVars, stack, clock, trace, nAuto, nInv, reqs, reqStartLen, pbWavelength, swResult, mountVars, calibVars, cacheVars, closeVars, scanVars, chargeVars, zaberVars, monoVars, transVars, autoVars, queryVars, gridVars, sharedVars>>
    \/ Tick /\ UNCHANGED <<dbVars, stack, clock, trace, nAuto, nInv, reqs, reqStartLen, pbWavelength, swResult, mountVars, calibVars, cacheVars, closeVars, scanVars, chargeVars, zaberVars, monoVars, transVars, autoVars, queryVars, gridVars, sharedVars>>

SpecDevices == InitDevices /\ [][NextDevices]_vars

InitClose ==
    /\ DbFrozen /\ MountFrozen /\ CalibFrozen /\ CacheFrozen /\ TimerFrozen
    /\ stack = <<>> /\ clock = 1 /\ trace = <<>> /\ nAuto = [k \in {1, 2} |-> 0]
    /\ nInv = 0 /\ reqs = 0 /\ reqStartLen = 0
    /\ WavInit
    /\ CloseInit
    /\ ScanFrozen
    /\ ChargeFrozen
    /\ ZaberFrozen
    /\ MonoFrozen
    /\ TransFrozen
    /\ AutoFrozen
    /\ QueryFrozen
    /\ GridFrozen
    /\ SharedFrozen

NextClose ==
    \/ CloseAllConnections /\ UNCHANGED <<dbVars, stack, clock, trace, nAuto, nInv, reqs, reqStartLen, pbWavelength, swResult, mountVars, calibVars, cacheVars, timerVars, scanVars, chargeVars, zaberVars, monoVars, transVars, autoVars, queryVars, gridVars, sharedVars>>
    \/ CloseMonochromator /\ UNCHANGED <<dbVars, stack, clock, trace, nAuto, nInv, reqs, reqStartLen, pbWavelength, swResult, mountVars, calibVars, cacheVars, timerVars, scanVars, chargeVars, zaberVars, monoVars, transVars, autoVars, queryVars, gridVars, sharedVars>>
    \/ CloseShutter /\ UNCHANGED <<dbVars, stack, clock, trace, nAuto, nInv, reqs, reqStartLen, pbWavelength, swResult, mountVars, calibVars, cacheVars, timerVars, scanVars, chargeVars, zaberVars, monoVars, transVars, autoVars, queryVars, gridVars, sharedVars>>
    \/ CloseFlipMount /\ UNCHANGED <<dbVars, stack, clock, trace, nAuto, nInv, reqs, reqStartLen, pbWavelength, swResult, mountVars, calibVars, cacheVars, timerVars, scanVars, chargeVars, zaberVars, monoVars, transVars, autoVars, queryVars, gridVars, sharedVars>>
    \/ CloseKeysight /\ UNCHANGED <<dbVars, stack, clock, trace, nAuto, nInv, reqs, reqStartLen, pbWavelength, swResult, mountVars, calibVars, cacheVars, timerVars, scanVars, chargeVars, zaberVars, monoVars, transVars, autoVars, queryVars, gridVars, sharedVars>>
    \/ CloseLabJack /\ UNCHANGED <<dbVars, stack, clock, trace, nAuto, nInv, reqs, reqStartLen, pbWavelength, swResult, mountVars, calibVars, cacheVars, timerVars, scanVars, chargeVars, zaberVars, monoVars, transVars, autoVars, queryVars, gridVars, sharedVars>>

SpecClose == InitClose /\ [][NextClose]_vars

InitScan ==
    /\ DbInit /\ ExpInit /\ WavInit /\ ScanInit
    /\ MountFrozen /\ CalibFrozen /\ CacheFrozen /\ TimerFrozen /\ CloseFrozen
    /\ ChargeFrozen
    /\ ZaberFrozen
    /\ MonoFrozen
    /\ TransFrozen
    /\ AutoFrozen
    /\ QueryFrozen
    /\ GridFrozen
    /\ SharedFrozen

NextScan ==
    \/ WavelengthScan /\ UNCHANGED <<mountVars, calibVars, cacheVars, timerVars, closeVars, chargeVars, zaberVars, monoVars, transVars, autoVars, queryVars, gridVars, sharedVars>>
    \/ ScanSetWavelength /\ UNCHANGED <<mountVars, calibVars, cacheVars, timerVars, closeVars, chargeVars, zaberVars, monoVars, transVars, autoVars, queryVars, gridVars, sharedVars>>
    \/ ScanTake /\ UNCHANGED <<mountVars, calibVars, cacheVars, timerVars, closeVars, chargeVars, zaberVars, monoVars, transVars, autoVars, queryVars, gridVars, sharedVars>>
    \/ ExpBegin /\ UNCHANGED <<wavVars, scanVars, mountVars, calibVars, cacheVars, timerVars, closeVars, chargeVars, zaberVars, monoVars, transVars, autoVars, queryVars, gridVars, sharedVars>>
    \/ ExpArm /\ UNCHANGED <<wavVars, scanVars, mountVars, calibVars, cacheVars, timerVars, closeVars, chargeVars, zaberVars, monoVars, transVars, autoVars, queryVars, gridVars, sharedVars>>
    \/ ExpSleep /\ UNCHANGED <<wavVars, scanVars, mountVars, calibVars, cacheVars, timerVars, closeVars, chargeVars, zaberVars, monoVars, transVars, autoVars, queryVars, gridVars, sharedVars>>
    \/ ExpClose /\ UNCHANGED <<wavVars, scanVars, mountVars, calibVars, cacheVars, timerVars, closeVars, chargeVars, zaberVars, monoVars, transVars, autoVars, queryVars, gridVars, sharedVars>>
    \/ ScanRead /\ UNCHANGED <<wavVars, scanVars, mountVars, calibVars, cacheVars, timerVars, closeVars, chargeVars, zaberVars, monoVars, transVars, autoVars, queryVars, gridVars, sharedVars>>
    \/ ExpCheck1 /\ UNCHANGED <<wavVars, scanVars, mountVars, calibVars, cacheVars, timerVars, closeVars, chargeVars, zaberVars, monoVars, transVars, autoVars, queryVars, gridVars, sharedVars>>
    \/ ExpCheck2 /\ UNCHANGED <<wavVars, scanVars, mountVars, calibVars, cacheVars, timerVars, closeVars, chargeVars, zaberVars, monoVars, transVars, autoVars, queryVars, gridVars, sharedVars>>
    \/ ExpSave /\ UNCHANGED <<wavVars, scanVars, mountVars, calibVars, cacheVars, timerVars, closeVars, chargeVars, zaberVars, monoVars, transVars, autoVars, queryVars, gridVars, sharedVars>>
    \/ ScanReturn /\ UNCHANGED <<mountVars, calibVars, cacheVars, timerVars, closeVars, chargeVars, zaberVars, monoVars, transVars, autoVars, queryVars, gridVars, sharedVars>>

SpecScan == InitScan /\ [][NextScan]_vars

InitCharge ==
    /\ DbInit /\ ExpInit /\ WavInit /\ ChargeInit
    /\ MountFrozen /\ CalibFrozen /\ CacheFrozen /\ TimerFrozen /\ CloseFrozen
    /\ ScanFrozen
    /\ ZaberFrozen
    /\ MonoFrozen
    /\ TransFrozen
    /\ AutoFrozen
    /\ QueryFrozen
    /\ GridFrozen
    /\ SharedFrozen

NextCharge ==
    \/ TakeChargeExposure /\ UNCHANGED <<wavVars, mountVars, calibVars, cacheVars, timerVars, closeVars, scanVars, zaberVars, monoVars, transVars, autoVars, queryVars, gridVars, sharedVars>>
    \/ ChargeBegin /\ UNCHANGED <<wavVars, mountVars, calibVars, cacheVars, timerVars, closeVars, scanVars, zaberVars, monoVars, transVars, autoVars, queryVars, gridVars, sharedVars>>
    \/ ChargeClose /\ UNCHANGED <<wavVars, mountVars, calibVars, cacheVars, timerVars, closeVars, scanVars, zaberVars, monoVars, transVars, autoVars, queryVars, gridVars, sharedVars>>
    \/ ChargeRead /\ UNCHANGED <<wavVars, mountVars, calibVars, cacheVars, timerVars, closeVars, scanVars, zaberVars, monoVars, transVars, autoVars, queryVars, gridVars, sharedVars>>
    \/ ChargeSave /\ UNCHANGED <<wavVars, mountVars, calibVars, cacheVars, timerVars, closeVars, scanVars, zaberVars, monoVars, transVars, autoVars, queryVars, gridVars, sharedVars>>

SpecCharge == InitCharge /\ [][NextCharge]_vars

InitZaber ==
    /\ ZaberInit
    /\ DbFrozen /\ ExpFrozen /\ WavFrozen /\ MountFrozen /\ CalibFrozen
    /\ CacheFrozen /\ TimerFrozen /\ CloseFrozen /\ ScanFrozen /\ ChargeFrozen
    /\ MonoFrozen
    /\ TransFrozen
    /\ AutoFrozen
    /\ QueryFrozen
    /\ GridFrozen
    /\ SharedFrozen

NextZaber ==
    \/ SetNdFilter /\ UNCHANGED <<dbVars, expVars, wavVars, mountVars, calibVars, cacheVars, timerVars, closeVars, scanVars, chargeVars, monoVars, transVars, autoVars, queryVars, gridVars, sharedVars>>
    \/ MoveZaberAxis /\ UNCHANGED <<dbVars, expVars, wavVars, mountVars, calibVars, cacheVars, timerVars, closeVars, scanVars, chargeVars, monoVars, transVars, autoVars, queryVars, gridVars, sharedVars>>
    \/ GetCurrentSlot /\ UNCHANGED <<dbVars, expVars, wavVars, mountVars, calibVars, cacheVars, timerVars, closeVars, scanVars, chargeVars, monoVars, transVars, autoVars, queryVars, gridVars, sharedVars>>
    \/ ZaberGoHome /\ UNCHANGED <<dbVars, expVars, wavVars, mountVars, calibVars, cacheVars, timerVars, closeVars, scanVars, chargeVars, monoVars, transVars, autoVars, queryVars, gridVars, sharedVars>>
    \/ ZaberClose /\ UNCHANGED <<dbVars, expVars, wavVars, mountVars, calibVars, cacheVars, timerVars, closeVars, scanVars, chargeVars, monoVars, transVars, autoVars, queryVars, gridVars, sharedVars>>

SpecZaber == InitZaber /\ [][NextZaber]_vars

InitMono ==
    /\ MonoInit
    /\ DbFrozen /\ ExpFrozen /\ WavFrozen /\ MountFrozen /\ CalibFrozen
    /\ CacheFrozen /\ TimerFrozen /\ CloseFrozen /\ ScanFrozen /\ ChargeFrozen
    /\ ZaberFrozen
    /\ TransFrozen
    /\ AutoFrozen
    /\ QueryFrozen
    /\ GridFrozen
    /\ SharedFrozen

NextMono ==
    \/ MoveToWavelength /\ UNCHANGED <<dbVars, expVars, wavVars, mountVars, calibVars, cacheVars, timerVars, closeVars, scanVars, chargeVars, zaberVars, transVars, autoVars, queryVars, gridVars, sharedVars>>
    \/ QueryWavelength /\ UNCHANGED <<dbVars, expVars, wavVars, mountVars, calibVars, cacheVars, timerVars, closeVars, scanVars, chargeVars, zaberVars, transVars, autoVars, queryVars, gridVars, sharedVars>>
    \/ SetUnits /\ UNCHANGED <<dbVars, expVars, wavVars, mountVars, calibVars, cacheVars, timerVars, closeVars, scanVars, chargeVars, zaberVars, transVars, autoVars, queryVars, gridVars, sharedVars>>
    \/ ChangeOrder /\ UNCHANGED <<dbVars, expVars, wavVars, mountVars, calibVars, cacheVars, timerVars, closeVars, scanVars, chargeVars, zaberVars, transVars, autoVars, queryVars, gridVars, sharedVars>>
    \/ ScanWavelengths /\ UNCHANGED <<dbVars, expVars, wavVars, mountVars, calibVars, cacheVars, timerVars, closeVars, scanVars, chargeVars, zaberVars, transVars, autoVars, queryVars, gridVars, sharedVars>>
    \/ GoHome /\ UNCHANGED <<dbVars, expVars, wavVars, mountVars, calibVars, cacheVars, timerVars, closeVars, scanVars, chargeVars, zaberVars, transVars, autoVars, queryVars, gridVars, sharedVars>>

SpecMono == InitMono /\ [][NextMono]_vars

InitKeysight ==
    /\ KsInit /\ LjInit
    /\ DbFrozen /\ ExpFrozen /\ WavFrozen /\ MountFrozen /\ CalibFrozen
    /\ CacheFrozen /\ TimerFrozen /\ CloseFrozen /\ ScanFrozen /\ ChargeFrozen
    /\ ZaberFrozen /\ MonoFrozen
    /\ AutoFrozen
    /\ QueryFrozen
    /\ GridFrozen
    /\ SharedFrozen

NextKeysight ==
    \/ KsWrite /\ UNCHANGED ljVars /\ UNCHANGED <<dbVars, expVars, wavVars, mountVars, calibVars, cacheVars, timerVars, closeVars, scanVars, chargeVars, zaberVars, monoVars, autoVars, queryVars, gridVars, sharedVars>>
    \/ KsRead /\ UNCHANGED ljVars /\ UNCHANGED <<dbVars, expVars, wavVars, mountVars, calibVars, cacheVars, timerVars, closeVars, scanVars, chargeVars, zaberVars, monoVars, autoVars, queryVars, gridVars, sharedVars>>

SpecKeysight == InitKeysight /\ [][NextKeysight]_vars

InitLabJack ==
    /\ LjInit /\ KsInit
    /\ DbFrozen /\ ExpFrozen /\ WavFrozen /\ MountFrozen /\ CalibFrozen
    /\ CacheFrozen /\ TimerFrozen /\ CloseFrozen /\ ScanFrozen /\ ChargeFrozen
    /\ ZaberFrozen /\ MonoFrozen
    /\ AutoFrozen
    /\ QueryFrozen
    /\ GridFrozen
    /\ SharedFrozen

NextLabJack ==
    \/ LjSend /\ UNCHANGED ksVars /\ UNCHANGED <<dbVars, expVars, wavVars, mountVars, calibVars, cacheVars, timerVars, closeVars, scanVars, chargeVars, zaberVars, monoVars, autoVars, queryVars, gridVars, sharedVars>>
    \/ LjWrite /\ UNCHANGED ksVars /\ UNCHANGED <<dbVars, expVars, wavVars, mountVars, calibVars, cacheVars, timerVars, closeVars, scanVars, chargeVars, zaberVars, monoVars, autoVars, queryVars, gridVars, sharedVars>>
    \/ LjReset /\ UNCHANGED ksVars /\ UNCHANGED <<dbVars, expVars, wavVars, mountVars, calibVars, cacheVars, timerVars, closeVars, scanVars, chargeVars, zaberVars, monoVars, autoVars, queryVars, gridVars, sharedVars>>
    \/ LjGetState /\ UNCHANGED ksVars /\ UNCHANGED <<dbVars, expVars, mountVars, calibVars, cacheVars, timerVars, closeVars, scanVars, chargeVars, zaberVars, monoVars, autoVars, queryVars, gridVars, sharedVars>>
    \/ FlipReset /\ UNCHANGED <<ksVars, ljVars>> /\ UNCHANGED <<dbVars, expVars, mountVars, calibVars, cacheVars, timerVars, closeVars, scanVars, chargeVars, zaberVars, monoVars, autoVars, queryVars, gridVars, sharedVars>>

SpecLabJack == InitLabJack /\ [][NextLabJack]_vars

InitAutoScale ==
    /\ AutoInit
    /\ DbFrozen /\ ExpFrozen /\ WavFrozen /\ MountFrozen /\ CalibFrozen
    /\ CacheFrozen /\ TimerFrozen /\ CloseFrozen /\ ScanFrozen /\ ChargeFrozen
    /\ ZaberFrozen /\ MonoFrozen /\ TransFrozen
    /\ QueryFrozen
    /\ GridFrozen
    /\ SharedFrozen

NextAutoScale ==
    \/ AutoScale /\ UNCHANGED <<dbVars, expVars, wavVars, mountVars, calibVars, cacheVars, timerVars, closeVars, scanVars, chargeVars, zaberVars, monoVars, transVars, queryVars, gridVars, sharedVars>>
    \/ AutoScaleStep /\ UNCHANGED <<dbVars, expVars, wavVars, mountVars, calibVars, cacheVars, timerVars, closeVars, scanVars, chargeVars, zaberVars, monoVars, transVars, queryVars, gridVars, sharedVars>>
    \/ AutoScaleReturn /\ UNCHANGED <<dbVars, expVars, wavVars, mountVars, calibVars, cacheVars, timerVars, closeVars, scanVars, chargeVars, zaberVars, monoVars, transVars, queryVars, gridVars, sharedVars>>

SpecAutoScale == InitAutoScale /\ [][NextAutoScale]_vars

InitQuery ==
    /\ DbInit /\ ExpInit /\ shutterState = "on" /\ QueryInit /\ MonoPresent
    /\ WavFrozen /\ MountFrozen /\ CalibFrozen /\ CacheFrozen
    /\ TimerFrozen /\ CloseFrozen /\ ScanFrozen /\ ChargeFrozen
    /\ ZaberFrozen /\ TransFrozen /\ AutoFrozen
    /\ GridFrozen
    /\ SharedFrozen

NextQuery ==
    \/ PbGetWavelength /\ UNCHANGED <<dbVars, expVars, mountVars, calibVars, cacheVars, timerVars, closeVars, scanVars, chargeVars, zaberVars, transVars, autoVars, gridVars, sharedVars>>
    \/ TakeExposure /\ UNCHANGED <<wavVars, monoVars, queryVars, mountVars, calibVars, cacheVars, timerVars, closeVars, scanVars, chargeVars, zaberVars, transVars, autoVars, gridVars, sharedVars>>
    \/ ExpBegin /\ UNCHANGED <<wavVars, monoVars, queryVars, mountVars, calibVars, cacheVars, timerVars, closeVars, scanVars, chargeVars, zaberVars, transVars, autoVars, gridVars, sharedVars>>
    \/ ExpArm /\ UNCHANGED <<wavVars, monoVars, queryVars, mountVars, calibVars, cacheVars, timerVars, closeVars, scanVars, chargeVars, zaberVars, transVars, autoVars, gridVars, sharedVars>>
    \/ ExpSleep /\ UNCHANGED <<wavVars, monoVars, queryVars, mountVars, calibVars, cacheVars, timerVars, closeVars, scanVars, chargeVars, zaberVars, transVars, autoVars, gridVars, sharedVars>>
    \/ ExpClose /\ UNCHANGED <<wavVars, monoVars, queryVars, mountVars, calibVars, cacheVars, timerVars, closeVars, scanVars, chargeVars, zaberVars, transVars, autoVars, gridVars, sharedVars>>
    \/ ExpRead /\ UNCHANGED <<wavVars, monoVars, queryVars, mountVars, calibVars, cacheVars, timerVars, closeVars, scanVars, chargeVars, zaberVars, transVars, autoVars, gridVars, sharedVars>>
    \/ ExpCheck1 /\ UNCHANGED <<wavVars, monoVars, queryVars, mountVars, calibVars, cacheVars, timerVars, closeVars, scanVars, chargeVars, zaberVars, transVars, autoVars, gridVars, sharedVars>>
    \/ ExpCheck2 /\ UNCHANGED <<wavVars, monoVars, queryVars, mountVars, calibVars, cacheVars, timerVars, closeVars, scanVars, chargeVars, zaberVars, transVars, autoVars, gridVars, sharedVars>>
    \/ ExpSave /\ UNCHANGED <<wavVars, monoVars, queryVars, mountVars, calibVars, cacheVars, timerVars, closeVars, scanVars, chargeVars, zaberVars, transVars, autoVars, gridVars, sharedVars>>

SpecQuery == InitQuery /\ [][NextQuery]_vars

InitGrid ==
    /\ GridInit
    /\ DbFrozen /\ ExpFrozen /\ WavFrozen /\ MountFrozen /\ CalibFrozen
    /\ CacheFrozen /\ TimerFrozen /\ CloseFrozen /\ ScanFrozen /\ ChargeFrozen
    /\ ZaberFrozen /\ MonoFrozen /\ TransFrozen /\ AutoFrozen /\ QueryFrozen
    /\ SharedFrozen

NextGrid ==
    \/ GridBegin /\ UNCHANGED <<dbVars, expVars, wavVars, mountVars, calibVars, cacheVars, timerVars, closeVars, scanVars, chargeVars, zaberVars, monoVars, transVars, autoVars, queryVars, sharedVars>>
    \/ GridVisit /\ UNCHANGED <<dbVars, expVars, wavVars, mountVars, calibVars, cacheVars, timerVars, closeVars, scanVars, chargeVars, zaberVars, monoVars, transVars, autoVars, queryVars, sharedVars>>
    \/ GridEnd /\ UNCHANGED <<dbVars, expVars, wavVars, mountVars, calibVars, cacheVars, timerVars, closeVars, scanVars, chargeVars, zaberVars, monoVars, transVars, autoVars, queryVars, sharedVars>>

SpecGrid == InitGrid /\ [][NextGrid]_vars

InitShared ==
    /\ SharedInit
    /\ DbFrozen /\ ExpFrozen /\ WavFrozen /\ MountFrozen /\ CalibFrozen
    /\ CacheFrozen /\ TimerFrozen /\ CloseFrozen /\ ScanFrozen /\ ChargeFrozen
    /\ ZaberFrozen /\ MonoFrozen /\ TransFrozen /\ AutoFrozen /\ QueryFrozen
    /\ GridFrozen

NextShared ==
    \/ SharedCommand /\ UNCHANGED <<dbVars, expVars, wavVars, mountVars, calibVars, cacheVars, timerVars, closeVars, scanVars, chargeVars, zaberVars, monoVars, transVars, autoVars, queryVars, gridVars>>
    \/ SharedGetState /\ UNCHANGED <<dbVars, expVars, wavVars, mountVars, calibVars, cacheVars, timerVars, closeVars, scanVars, chargeVars, zaberVars, monoVars, transVars, autoVars, queryVars, gridVars>>
    \/ SharedReset /\ UNCHANGED <<dbVars, expVars, wavVars, mountVars, calibVars, cacheVars, timerVars, closeVars, scanVars, chargeVars, zaberVars, monoVars, transVars, autoVars, queryVars, gridVars>>

SpecShared == InitShared /\ [][NextShared]_vars

InitWavelength ==
    /\ WavInit
    /\ DbFrozen /\ ExpFrozen /\ MountFrozen /\ CalibFrozen /\ CacheFrozen
    /\ TimerFrozen /\ CloseFrozen /\ ScanFrozen
    /\ ChargeFrozen
    /\ ZaberFrozen
    /\ MonoFrozen
    /\ TransFrozen
    /\ AutoFrozen
    /\ QueryFrozen
    /\ GridFrozen
    /\ SharedFrozen

NextWavelength ==
    \/ SetWavelength /\ UNCHANGED <<dbVars, expVars, mountVars, calibVars, cacheVars, timerVars, closeVars, scanVars, chargeVars, zaberVars, monoVars, transVars, autoVars, queryVars, gridVars, sharedVars>>
    \/ FlipSwitch /\ UNCHANGED <<dbVars, expVars, mountVars, calibVars, cacheVars, timerVars, closeVars, scanVars, chargeVars, zaberVars, monoVars, transVars, autoVars, queryVars, gridVars, sharedVars>>
    \/ FlipQuery /\ UNCHANGED <<dbVars, expVars, mountVars, calibVars, cacheVars, timerVars, closeVars, scanVars, chargeVars, zaberVars, monoVars, transVars, autoVars, queryVars, gridVars, sharedVars>>
    \/ FlipReset /\ UNCHANGED <<dbVars, expVars, mountVars, calibVars, cacheVars, timerVars, closeVars, scanVars, chargeVars, zaberVars, monoVars, transVars, autoVars, queryVars, gridVars, sharedVars>>
    \/ FlipInitialize /\ UNCHANGED <<dbVars, expVars, mountVars, calibVars, cacheVars, timerVars, closeVars, scanVars, chargeVars, zaberVars, monoVars, transVars, autoVars, queryVars, gridVars, sharedVars>>
    \/ FlipClose /\ UNCHANGED <<dbVars, expVars, mountVars, calibVars, cacheVars, timerVars, closeVars, scanVars, chargeVars, zaberVars, monoVars, transVars, autoVars, queryVars, gridVars, sharedVars>>

SpecWavelength == InitWavelength /\ [][NextWavelength]_vars

InitMount ==
    /\ MountInit
    /\ DbFrozen /\ ExpFrozen /\ WavFrozen /\ CalibFrozen /\ CacheFrozen
    /\ TimerFrozen /\ CloseFrozen /\ ScanFrozen
    /\ ChargeFrozen
    /\ ZaberFrozen
    /\ MonoFrozen
    /\ TransFrozen
    /\ AutoFrozen
    /\ QueryFrozen
    /\ GridFrozen
    /\ SharedFrozen

NextMount ==
    \/ GotoAltAz /\ UNCHANGED <<dbVars, expVars, wavVars, calibVars, cacheVars, timerVars, closeVars, scanVars, chargeVars, zaberVars, monoVars, transVars, autoVars, queryVars, gridVars, sharedVars>>
    \/ Park /\ UNCHANGED <<dbVars, expVars, wavVars, calibVars, cacheVars, timerVars, closeVars, scanVars, chargeVars, zaberVars, monoVars, transVars, autoVars, queryVars, gridVars, sharedVars>>
    \/ Unpark /\ UNCHANGED <<dbVars, expVars, wavVars, calibVars, cacheVars, timerVars, closeVars, scanVars, chargeVars, zaberVars, monoVars, transVars, autoVars, queryVars, gridVars, sharedVars>>
    \/ SetAltLimit /\ UNCHANGED <<dbVars, expVars, wavVars, calibVars, cacheVars, timerVars, closeVars, scanVars, chargeVars, zaberVars, monoVars, transVars, autoVars, queryVars, gridVars, sharedVars>>

SpecMount == InitMount /\ [][NextMount]_vars

InitCalib ==
    /\ CalibInit
    /\ DbFrozen /\ ExpFrozen /\ WavFrozen /\ MountFrozen /\ CacheFrozen
    /\ TimerFrozen /\ CloseFrozen /\ ScanFrozen
    /\ ChargeFrozen
    /\ ZaberFrozen
    /\ MonoFrozen
    /\ TransFrozen
    /\ AutoFrozen
    /\ QueryFrozen
    /\ GridFrozen
    /\ SharedFrozen

NextCalib ==
    \/ AddCalibration /\ UNCHANGED <<dbVars, expVars, wavVars, mountVars, cacheVars, timerVars, closeVars, scanVars, chargeVars, zaberVars, monoVars, transVars, autoVars, queryVars, gridVars, sharedVars>>
    \/ SetDefault /\ UNCHANGED <<dbVars, expVars, wavVars, mountVars, cacheVars, timerVars, closeVars, scanVars, chargeVars, zaberVars, monoVars, transVars, autoVars, queryVars, gridVars, sharedVars>>

SpecCalib == InitCalib /\ [][NextCalib]_vars

InitRunId ==
    /\ CacheInit
    /\ DbFrozen /\ ExpFrozen /\ WavFrozen /\ MountFrozen /\ CalibFrozen
    /\ TimerFrozen /\ CloseFrozen /\ ScanFrozen
    /\ ChargeFrozen
    /\ ZaberFrozen
    /\ MonoFrozen
    /\ TransFrozen
    /\ AutoFrozen
    /\ QueryFrozen
    /\ GridFrozen
    /\ SharedFrozen

NextRunId ==
    \/ ConstructWriting /\ UNCHANGED <<dbVars, expVars, wavVars, mountVars, calibVars, timerVars, closeVars, scanVars, chargeVars, zaberVars, monoVars, transVars, autoVars, queryVars, gridVars, sharedVars>>
    \/ ConstructExplicit /\ UNCHANGED <<dbVars, expVars, wavVars, mountVars, calibVars, timerVars, closeVars, scanVars, chargeVars, zaberVars, monoVars, transVars, autoVars, queryVars, gridVars, sharedVars>>
    \/ ConstructReading /\ UNCHANGED <<dbVars, expVars, wavVars, mountVars, calibVars, timerVars, closeVars, scanVars, chargeVars, zaberVars, monoVars, transVars, autoVars, queryVars, gridVars, sharedVars>>
    \/ NextDay /\ UNCHANGED <<dbVars, expVars, wavVars, mountVars, calibVars, timerVars, closeVars, scanVars, chargeVars, zaberVars, monoVars, transVars, autoVars, queryVars, gridVars, sharedVars>>

SpecRunId == InitRunId /\ [][NextRunId]_vars

(***************************************************************************)
(* Properties of the exposure sequencer and the run database               *)
(***************************************************************************)
\* The current request has returned.
RequestDone == reqs >= 1 /\ stack = <<>>

\* The rows the current request has committed.
RequestRows == SubSeq(run_db, reqStartLen + 1, Len(run_db))

\* The events of one invocation, in order.
OwnEvents(inv) == SelectSeq(trace, LAMBDA e : e.inv = inv)

\* The means invocation inv has read from electrometer k (none before its reads).
Means(inv, k) ==
    {trace[i].arg : i \in {j \in 1..Len(trace) :
        trace[j].inv = inv /\ trace[j].ev = (IF k = 1 THEN "mean1" ELSE "mean2")}}

\* The request is a light exposure.
LightRequest == trace # <<>> /\ trace[1].ev = "take_exposure" /\ trace[1].arg = 0

\* C1: within one run every row committed by write_exposure has an expid
\* exactly one greater than the row committed before it, retries included:
\* the expid column increases by one from row to row.
C1_ExpidConsecutive ==
    \A i \in 2..Len(run_db) : run_db[i].expid = run_db[i - 1].expid + 1

\* Two requests, the second with two retries, have committed their rows.
C1_Witness ==
    /\ RequestDone
    /\ reqs = 2
    /\ nInv = 3
    /\ Len(RequestRows) = 3
    /\ reqStartLen >= 1

\* C2: in a fresh run (run CSV absent or empty when the database is opened)
\* the first row committed by write_exposure has expid 0.
C2_FirstExpidZero ==
    (fresh /\ Len(run_db) >= 1) => run_db[1].expid = 0

\* The first read of a light exposure overflows on K1 only, and nothing
\* overflows on the retry.
C3_Case ==
    /\ RequestDone
    /\ LightRequest
    /\ \E m \in Means(1, 1) : IsOverflow(m)
    /\ \A m \in Means(1, 2) : ~IsOverflow(m)
    /\ \A m \in Means(2, 1) \cup Means(2, 2) : ~IsOverflow(m)

\* C3: if the first read of a light exposure overflows on K1 and the retried
\* measurement does not overflow, the request commits exactly one row, whose
\* currentInput is the mean of the retried measurement, and no row holding
\* the overflow value.
C3_OnlyRetriedRow ==
    C3_Case =>
        /\ Len(RequestRows) = 1
        /\ RequestRows[1].currentInput \in Means(2, 1)
        /\ \A i \in 1..Len(RequestRows) : ~IsOverflow(RequestRows[i].currentInput)

\* A single overflow: K1 on the first read, none on K2, none on the retry.
C4_Case ==
    /\ RequestDone
    /\ \E m \in Means(1, 1) : IsOverflow(m)
    /\ \A m \in Means(1, 2) : ~IsOverflow(m)
    /\ \A inv \in 2..nInv : \A m \in Means(inv, 1) \cup Means(inv, 2) : ~IsOverflow(m)

\* The auto_scale calls of the request on electrometer k.
AutoScaleCalls(k) ==
    Cardinality({i \in 1..Len(trace) : trace[i].ev = "auto_scale" /\ trace[i].arg = k})

\* C4: a single overflow on K1 during take_exposure (none on K2, none on the
\* retry) causes exactly one auto_scale on K1, none on K2, and exactly one
\* repeated exposure.
C4_OneAutoscaleOneRetry ==
    C4_Case =>
        /\ AutoScaleCalls(1) = 1 /\ nAuto[1] = 1
        /\ AutoScaleCalls(2) = 0 /\ nAuto[2] = 0
        /\ nInv = 2

C4_Witness == C4_Case /\ nInv = 2 /\ nAuto[1] = 1

\* C5: for one take_exposure request the sample is re-taken at most once,
\* whatever overflows on the first attempt and on the retry; an overflow on a
\* retry triggers no further auto_scale or retry.
C5_AtMostOneRetry ==
    /\ nInv <= 2
    /\ nAuto[1] + nAuto[2] <= 1
    /\ \A i \in 1..Len(trace) : trace[i].ev = "auto_scale" => trace[i].inv = 1

\* The first events of an invocation called with the logged is_dark argument:
\* the call, the shutter set, both electrometers armed, the sleep, the shutter
\* closed, both electrometers read.
ExposureOrder(dark) ==
    << [ev |-> "take_exposure", arg |-> dark],
       [ev |-> (IF dark = 1 THEN "close_shutter" ELSE "open_shutter"), arg |-> 0],
       [ev |-> "acquire", arg |-> 1],
       [ev |-> "acquire", arg |-> 2],
       [ev |-> "sleep", arg |-> 0],
       [ev |-> "close_shutter", arg |-> 0],
       [ev |-> "read", arg |-> 1],
       [ev |-> "read", arg |-> 2] >>

\* The events of an invocation without the values it read.
OwnSteps(inv) ==
    SelectSeq(OwnEvents(inv), LAMBDA e : e.ev \notin {"mean1", "mean2"})

\* C8: within one take_exposure invocation the events occur in the order
\* shutter set (closed if is_dark, open otherwise), both electrometers armed,
\* sleep, shutter closed, both electrometers read, row committed; no row is
\* committed before the closing shutter transition and the reads.
C8_EventOrder ==
    \A inv \in 1..nInv :
        LET o == OwnSteps(inv)
            order == ExposureOrder(o[1].arg)
        IN  /\ \A i \in 1..Len(o) :
                   i <= Len(order) => (o[i].ev = order[i].ev /\ o[i].arg = order[i].arg)
            /\ \A i \in 1..Len(o) :
                   o[i].ev = "commit" => (i = Len(o) /\ i > Len(order))
            /\ Cardinality({i \in 1..Len(o) : o[i].ev = "commit"}) <= 1

\* A dark exposure has gone through all its steps and committed its row.
C8_Witness ==
    /\ RequestDone
    /\ ~LightRequest
    /\ nInv = 1
    /\ Len(OwnSteps(1)) = 9
    /\ Last(trace).ev = "commit"

(***************************************************************************)
(* Properties of set_wavelength, goto_altaz, the calibration log and the   *)
(* run-id allocator                                                        *)
(***************************************************************************)
\* C6: after any set_wavelength(w) that returns successfully, from any prior
\* state of the order-block flip mount, the flip mount is ON if w is greater
\* than the crossover wavelength and OFF otherwise.
C6_FilterFollowsWavelength ==
    swResult.status = "ok" =>
        fmState = (IF swResult.wavelength > Crossover THEN "on" ELSE "off")

\* The last goto_altaz call was made against a safety check: the mount was
\* parked, the altitude below the limit, or the azimuth out of range.
C7_Unsafe ==
    /\ gotoResult.status # "none"
    /\ \/ gotoResult.pre.parked
       \/ gotoResult.alt < gotoResult.pre.limit
       \/ gotoResult.az < AzLower
       \/ gotoResult.az > AzUpper

\* C7: goto_altaz(alt, az) fails and sends none of :Sa, :Sz, :MSS, leaving the
\* mount in its previous state, whenever the mount is parked, alt is below
\* the altitude limit, or az is outside [az_lower, az_upper].
C7_UnsafeGotoRefused ==
    C7_Unsafe =>
        /\ gotoResult.status \in {"RuntimeError", "ValueError"}
        /\ \A i \in 1..Len(mountCmds) : mountCmds[i] \notin {"Sa", "Sz", "MSS"}
        /\ MountState = gotoResult.pre

\* goto_altaz(10, 180) with an altitude limit of 15 degrees, and
\* goto_altaz(20, 30) with the azimuth range [60, 300], were refused.
C7_Witness ==
    /\ ~gotoResult.pre.parked
    /\ gotoResult.status = "ValueError"
    /\ \/ gotoResult.alt = 10 /\ gotoResult.az = 180 /\ gotoResult.pre.limit = 15
       \/ gotoResult.alt = 20 /\ gotoResult.az = 30

\* C9: after any sequence of add_calibration and set_default calls, at most
\* one row per tag of the calibration log has is_default = true.
C9_AtMostOneDefault ==
    \A tag \in Tags :
        Cardinality({i \in TagEntries(calib_log, tag) : calib_log[i].is_default}) <= 1

\* The suffixes the cache held for the date before the last construction.
C10_Recorded ==
    {SuffixOf(allocResult.pre[i]) :
        i \in {j \in 1..Len(allocResult.pre) : StartsWith(allocResult.pre[j], allocResult.date)}}

\* C10: a writing-mode construction without run_id on date D allocates D
\* followed by the 3 digits of (highest suffix recorded for D in the cache)
\* + 1, or 001 if none is recorded, and appends it to the cache; from an
\* empty cache two constructions on D give D001 then D002 and the cache
\* holds both; no run id is allocated twice.
C10_RunIdAllocation ==
    /\ allocResult.status = "allocated" =>
          \E n \in 1..MaxSuffix :
              /\ allocResult.run_id =
                     allocResult.date \o <<n \div 100, (n \div 10) % 10, n % 10>>
              /\ \/ C10_Recorded = {} /\ n = 1
                 \/ (n - 1) \in C10_Recorded /\ \A m \in C10_Recorded : m <= n - 1
              /\ cache = Append(allocResult.pre, allocResult.run_id)
    /\ (Len(allocated) >= 2 /\ Len(cache) = Len(allocated)
          /\ StartsWith(allocated[2], Date1)) =>
          /\ allocated[1] = Date1 \o <<0, 0, 1>>
          /\ allocated[2] = Date1 \o <<0, 0, 2>>
          /\ SubSeq(cache, 1, 2) = <<allocated[1], allocated[2]>>
    /\ \A i, j \in 1..Len(allocated) : allocated[i] = allocated[j] => i = j
    /\ \A i \in 1..Len(allocated) : \E j \in 1..Len(cache) : cache[j] = allocated[i]

\* From an empty cache two constructions on the same date have been made.
C10_Witness ==
    /\ allocResult.status = "allocated"
    /\ allocResult.pre = <<Date1 \o <<0, 0, 1>>>>
    /\ cache = <<Date1 \o <<0, 0, 1>>, Date1 \o <<0, 0, 2>>>>
    /\ allocated = cache

\* C16: in every run each committed row's timestamp is later than or equal to
\* the timestamp of the row committed immediately before it, also when an
\* exposure is retried after an overflow.
C16_TimestampsNonDecreasing ==
    \A i \in 2..Len(run_db) : run_db[i].timestamp >= run_db[i - 1].timestamp

\* C19: whenever write_exposure has run (it alone changes current_expid), the
\* new frame is the old frame followed by exactly one new row, no earlier row
\* is changed or removed, and the run CSV on disk holds exactly the rows of
\* the new frame.
C19_CsvIsFramePlusOneRow ==
    [][current_expid' # current_expid =>
          /\ Len(run_db') = Len(run_db) + 1
          /\ SubSeq(run_db', 1, Len(run_db)) = run_db
          /\ Len(run_csv') = Len(run_db')
          /\ run_csv' = ToCsv(run_db')]_vars

C19_Witness ==
    /\ Len(run_db) >= MaxPriorRows + 2
    /\ run_db[1] # run_db[Len(run_db)]
    /\ run_csv = ToCsv(run_db)

\* C20: every committed row holds, in every schema column (other than expid)
\* that was not staged with add() since the previous write_exposure, the
\* default of that column; so a staged value is in no later row unless it
\* was staged again.
C20_UnstagedColumnsHoldDefault ==
    \A i \in 1..Len(run_db) :
        \A c \in (DOMAIN COLUMN_DEFINITIONS) \ (rowStaged[i] \cup {"expid"}) :
            /\ c \in DOMAIN run_db[i]
            /\ c \in DOMAIN DEFAULT_VALUES
            /\ run_db[i][c] = DEFAULT_VALUES[c]

\* C12: whenever the most recent call on a flip mount was activate() or
\* deactivate() and it returned without raising, the state of the flip mount
\* is ON after activate() and OFF after deactivate().
C12_StateMatchesLastCommand ==
    (dev = "flip" /\ devCall.status = "ok") =>
        /\ devCall.op = "activate" => fmState = "on"
        /\ devCall.op = "deactivate" => fmState = "off"

\* C13: constructing a flip mount on a line whose readback does not follow
\* the commanded level fails with NotPoweredOn (and writes no exposure row).
C13_UnpoweredConstructionFails ==
    (dev = "flip" /\ ~powered /\ devCall.op = "construct") =>
        /\ devCall.status = "NotPoweredOn"
        /\ run_db = <<>>

\* C14: activate() on a flip mount that is already ON leaves it ON, sends no
\* hardware command and leaves the rate limiter's last-operation time as it
\* was.
C14_ActivateOnIsIdempotent ==
    (dev = "flip" /\ devCall.op = "activate" /\ devCall.pre = "on") =>
        /\ fmState = "on"
        /\ ~devCall.sent
        /\ tmLast = devCall.preLast

C14_Witness ==
    /\ dev = "flip" /\ devCall.op = "activate" /\ devCall.pre = "on"
    /\ devCall.status = "ok"
    /\ now > tmLast
    /\ cmdLast >= 0

\* C15: the last two hardware commands of a device object are at least its
\* minimum interval apart: 100 ms for the shutter, 500 ms for a flip mount.
C15_CommandsApart ==
    cmdPrev >= 0 => cmdLast - cmdPrev >= MinInterval(dev)

C15_Witness ==
    /\ dev = "flip"
    /\ cmdPrev >= 0
    /\ devCall.slept /\ devCall.sent
    /\ cmdLast - cmdPrev = FlipMinInterval

\* The devices PandoraBox owns, in the documented order of shutdown.
C17_DocumentedOrder ==
    <<"monochromator", "shutter">> \o FlipMountNames \o KeysightNames
        \o (IF zaberOpen THEN <<"zaberNDFilter">> ELSE <<>>) \o <<"labjack">>

\* C17: when close_all_connections has returned it has closed every owned
\* device exactly once, in the order monochromator, shutter, flip mounts,
\* electrometers, Zaber stages, (spectrometer,) LabJack.
C17_ClosedOnceInOrder ==
    closePc = "done" => closeLog = C17_DocumentedOrder

\* C18: when close_all_connections has returned the shutter has been driven
\* closed, the input of every electrometer is off and the serial port of the
\* monochromator is closed.
C18_SafeRestingState ==
    closePc = "done" =>
        /\ shutterClosed
        /\ \A k \in DOMAIN ksInput : ~ksInput[k]
        /\ ~monoOpen

\* No exposure of the scan overflowed: every reading is saved in some row.
C11_NoOverflow ==
    \A i \in (scanStartLen + 1)..Len(run_db) :
        ~IsOverflow(run_db[i].currentInput) /\ ~IsOverflow(run_db[i].currentOutput)

\* What the scan is claimed to call after its set-up: per wavelength
\* set_wavelength, one baseline dark, then nrepeats times [light, dark].
C11_ClaimedCalls ==
    LET b == 2 + 2 * scanArgs.r
    IN  [k \in 1..(scanArgs.n * b) |->
            LET o == (k - 1) % b
            IN  IF o = 0
                THEN ScanCall("set_wavelength",
                              ScanWavelength(scanArgs.start, ((k - 1) \div b) + 1))
                ELSE IF o = 1 THEN ScanCall("dark", 0)
                ELSE ScanCall(<<"light", "dark">>[((o - 2) % 2) + 1], 0)]

\* What the scan calls after its set-up: per wavelength set_wavelength, then
\* nrepeats times [dark, light, dark].
C11_LoopCalls ==
    LET b == 1 + 3 * scanArgs.r
    IN  [k \in 1..(scanArgs.n * b) |->
            LET o == (k - 1) % b
            IN  IF o = 0
                THEN ScanCall("set_wavelength",
                              ScanWavelength(scanArgs.start, ((k - 1) \div b) + 1))
                ELSE ScanCall(<<"dark", "light", "dark">>[((o - 1) % 3) + 1], 0)]

\* C11 as claimed: a wavelength_scan over n wavelengths with nrepeats = r and
\* no overflow has called, for each wavelength in order, set_wavelength, one
\* baseline dark and r times [light, closing dark], and has committed
\* n * (1 + 2r) rows.
C11_BaselineDarkThenPairs ==
    (scanPc = "done" /\ C11_NoOverflow) =>
        /\ SubSeq(scanLog, 4, Len(scanLog)) = C11_ClaimedCalls
        /\ Len(run_db) - scanStartLen = scanArgs.n * (1 + 2 * scanArgs.r)

\* C11 amended: a wavelength_scan over n wavelengths with nrepeats = r and no
\* overflow has called, for each wavelength in order, set_wavelength and then
\* r times [dark, light, dark], and has committed 3 * n * r rows.
C11_DarkLightDarkTriples ==
    (scanPc = "done" /\ C11_NoOverflow) =>
        /\ SubSeq(scanLog, 4, Len(scanLog)) = C11_LoopCalls
        /\ Len(run_db) - scanStartLen = 3 * scanArgs.n * scanArgs.r

C11_Witness ==
    /\ scanPc = "done" /\ C11_NoOverflow
    /\ scanArgs.n = 2 /\ scanArgs.r = 2
    /\ Len(run_db) - scanStartLen = 12

\* The largest expid in the run CSV.
C21_MaxExpidOnDisk ==
    SeqMax([i \in 1..Len(run_csv) |-> ReadCell(run_csv[i].expid, "expid")])

\* C21: a row committed while the run CSV already holds rows gets the largest
\* expid of the file plus one, also after the database was closed and opened
\* again on the same run; so no expid of the file is used again.
C21_NextExpidAfterMax ==
    [][(current_expid' # current_expid /\ run_csv # <<>>) =>
          /\ Last(run_db').expid = C21_MaxExpidOnDisk + 1
          /\ \A i \in 1..Len(run_db) : run_db[i].expid # Last(run_db').expid]_vars

C21_Witness ==
    /\ openLen > MaxPriorRows
    /\ Len(run_db) > openLen
    /\ Last(run_db).expid = Len(run_db)

\* C22: after add_calibration(tag, data) the log is the old log followed by
\* one row of that tag; the row has is_default = true if the tag had no row
\* before and is_default = false if it had, and no earlier row (so no current
\* default) is changed.
C22_FirstArtifactIsDefault ==
    [][calibCall'.op = "add_calibration" =>
          /\ Len(calib_log') = Len(calib_log) + 1
          /\ SubSeq(calib_log', 1, Len(calib_log)) = calib_log
          /\ Last(calib_log').tag = calibCall'.tag
          /\ Last(calib_log').is_default =
                 (\A i \in 1..Len(calib_log) : calib_log[i].tag # calibCall'.tag)]_vars

C22_Witness ==
    /\ calibCall.op = "add_calibration"
    /\ Len(calib_log) >= 3
    /\ calib_log[1].tag = calibCall.tag
    /\ calib_log[1].is_default
    /\ ~Last(calib_log).is_default
    /\ \E i \in 1..Len(calib_log) : calib_log[i].tag # calibCall.tag

\* The file name a successful set_default call names: its argument, or with
\* filename = None that of the row of the tag with the latest timestamp.
C23_Named ==
    IF calibCall.fn = <<>>
    THEN calib_log[MostRecent(calib_log, calibCall.tag)].filename
    ELSE calibCall.fn[1]

\* C23: after set_default(tag, filename) returns having found the artifact,
\* the rows of the tag with that file name have is_default = true and the
\* rows of the tag with any other file name have is_default = false; with
\* filename = None the file name is that of the row of the tag with the
\* latest timestamp; nothing else of the log, rows of other tags included,
\* is changed.
C23_SetDefaultMarksNamed ==
    [][(calibCall'.op = "set_default" /\ calibCall'.status = "ok") =>
          /\ Len(calib_log') = Len(calib_log)
          /\ \A i \in 1..Len(calib_log) :
                IF calib_log[i].tag = calibCall'.tag
                THEN calib_log'[i] =
                        [calib_log[i] EXCEPT
                            !.is_default = (calib_log[i].filename = C23_Named')]
                ELSE calib_log'[i] = calib_log[i]]_vars

C23_Witness ==
    /\ calibCall.op = "set_default"
    /\ calibCall.status = "ok"
    /\ calibCall.fn = <<>>
    /\ \E i, j \in TagEntries(calib_log, calibCall.tag) :
          /\ i < j
          /\ ~calib_log[i].is_default
          /\ calib_log[j].is_default
          /\ calib_log[i].filename # calib_log[j].filename
    /\ \E i \in 1..Len(calib_log) :
          calib_log[i].tag # calibCall.tag /\ calib_log[i].is_default

\* C24: a take_charge_exposure that read N samples without overflow and has
\* ended has committed exactly N rows, one per sample in acquisition order,
\* each with the sample's sampleTime, with chargeInput and chargeOutput, and
\* with measurementMode = "CHAR".
C24_OneRowPerSample ==
    (chargePc = "idle" /\ chargeN > 0 /\ ~chargeArgs.warning) =>
        /\ Len(run_db) = chargeStartLen + chargeN
        /\ \A i \in 1..chargeN :
              LET row == run_db[chargeStartLen + i]
              IN  /\ {"sampleTime", "chargeInput", "chargeOutput",
                       "measurementMode"} \subseteq DOMAIN row
                  /\ row.sampleTime = i - 1
                  /\ row.measurementMode = "CHAR"

\* C25: after a set_nd_filter(name) that returned without raising, the
\* ND-filter stage stands within 0.1 mm of the slot map's entry for name and
\* the cached slot is name.
C25_StageAtNamedSlot ==
    (zbCall.op = "set_nd_filter" /\ zbCall.status = "ok") =>
        /\ zbCall.name \in DOMAIN MASK_MAP
        /\ Abs(zbStage - MASK_MAP[zbCall.name]) < SlotTolerance
        /\ zbPosition = zbCall.name

C25_Witness ==
    /\ zbCall.op = "set_nd_filter"
    /\ zbCall.status = "ok"
    /\ zbCall.name = "CLEAR"
    /\ zbStage # MASK_MAP["CLEAR"]

\* C26: the wavelength decoded by get_wavelength from the two bytes that
\* move_to_wavelength(lambda) put on the wire is round(lambda * 10) / 10.
C26_RoundTripRounds ==
    monoDecoded # -1 => monoDecoded = Round(monoLambda) * 10

\* C27: every row is committed with the state of every flip mount at that
\* moment, the order-block filter included: its flipOrderBlockFilter column
\* is true exactly when flipOrderBlockFilter is ON.
C27_RowRecordsEveryFlipMount ==
    [][Len(run_db') = Len(run_db) + 1 =>
          /\ Last(run_db').flipOrderBlockFilter = PyBool(fmState = "on")
          /\ \A name \in OtherFlipMounts :
                Last(run_db')[name] = PyBool(flips[name] = "on")]_vars

\* C28: a set_wavelength whose move-to-wavelength command the monochromator
\* answered with a status byte with bit 7 set, or did not answer, reports a
\* failure to its caller and leaves the recorded wavelength as it was.
C28_RejectedMoveIsReported ==
    [][swResult'.answer \in {"rejected", "silent"} =>
          /\ swResult'.status # "ok"
          /\ pbWavelength' = pbWavelength]_vars

\* C29 as stated: a write or read whose transport call failed has made
\* exactly one reconnect attempt and exactly one retry of the command, and
\* if the retry failed the call ended with an exception.
C29_OneReconnectOneRetry ==
    ksCall.first = "VisaIOError" =>
        /\ ksCall.reconnects = 1
        /\ ksCall.retries = 1
        /\ ksCall.retry # "ok" => ksCall.status # "ok"

\* C29: a write or read whose transport call failed has made exactly one
\* reconnect attempt and at most one retry of the command: one if the
\* reconnect attempt returned, none if it raised ConnectionError; the call
\* ended normally only if the retry got through, and otherwise with an
\* exception, without further reconnects or retries.
C29_OneReconnectAtMostOneRetry ==
    ksCall.first = "VisaIOError" =>
        /\ ksCall.reconnects = 1
        /\ ksCall.retries = (IF ksCall.reconnect = "unreachable" THEN 0 ELSE 1)
        /\ ksCall.status = "ok" <=> ksCall.retry = "ok"
        /\ ksCall.status \in {"ok", "VisaIOError", "ConnectionError", "AttributeError"}

C29_Witness ==
    /\ ksCall.op = "read"
    /\ ksCall.first = "VisaIOError"
    /\ ksCall.reconnect = "ok"
    /\ ksCall.retry = "VisaIOError"
    /\ ksCall.status = "VisaIOError"

\* C30: a send_high_signal / send_low_signal call makes at most one reset
\* (reconnect attempt) and at most one retry of the write, and if the write
\* has failed for the second time the call ends with the exception.
C30_OneResetOneRetry ==
    /\ ljResets <= 1
    /\ ljWrites <= 2

\* C31: a get_state() whose LabJack read failed once and succeeded after the
\* one reconnect got the value without an exception, so the flip mount that
\* was not in FAULT before is not in FAULT after.
C31_ReadRecoversAfterReconnect ==
    (/\ ljReadCall.first = "fail"
     /\ ljReadCall.reset = "ok"
     /\ ljReadCall.second = "ok"
     /\ ljReadCall.pre \in {"idle", "on", "off"}) =>
        /\ ljReadCall.status = "returned"
        /\ fmState # "fault"

\* C32: after any monochromator operation has returned or failed, the serial
\* port is closed.
C32_PortClosedAfterOperation ==
    monoOp.op # "none" => monoPort = "closed"

\* 0.05 * r <= |mean| <= 0.80 * r for rung i.
C33_InWindow(v, i) ==
    /\ v.m # 0
    /\ v.e >= i - 2
    /\ v.e < i - 1 \/ (v.e = i - 1 /\ v.m <= 16)

\* C33: auto_scale makes at most 15 acquisitions and auto_scale_charge at
\* most 10; each returns a rung of its ladder, to which the instrument is
\* set; for a constant signal the returned range r has
\* 0.05 * r <= |mean| <= 0.80 * r, or is the top or the bottom rung.
C33_BoundedSearchFindsWindow ==
    /\ asIter <= MaxIterations(asMode)
    /\ asPc = "returned" =>
          /\ asIdx \in 1..Rungs(asMode)
          /\ asSet = asIdx
          /\ \/ C33_InWindow(asSignal, asIdx)
             \/ asIdx = 1
             \/ asIdx = Rungs(asMode)

C33_Witness ==
    /\ asPc = "returned"
    /\ asMode = "CURR"
    /\ asIter = 7
    /\ asIdx = 2
    /\ asSignal = [m |-> 17, e |-> 0]
    /\ C33_InWindow(asSignal, asIdx)

\* C34: after get_wavelength(query=True) has returned, the value it returned and
\* the controller's recorded wavelength both equal the wavelength the
\* monochromator reported.
C34_QueryReturnsReported ==
    (pbReturned.op = "get_wavelength" /\ pbReturned.query) =>
        /\ pbReturned.value = Nm(Decode(monoWire))
        /\ pbWavelength = Nm(Decode(monoWire))

\* C35: a scan that has returned visited exactly start, start + step,
\* start + 2 step, ... in increasing order, every one of them between start
\* and end.
C35_VisitsGridWithinEnd ==
    gridPc = "done" =>
        \A i \in 1..Len(gridSeen) :
            /\ gridSeen[i] = gridArgs.start + (i - 1) * gridArgs.step
            /\ gridArgs.start <= gridSeen[i]
            /\ gridSeen[i] <= gridArgs.end

\* C36: after move_to_slot, move_zaber_axis, go_home or get_current_slot has
\* returned, the cached current slot is HOME, UNKNOWN, or a slot name whose
\* position in the slot map is within 0.1 mm of where the stage is.
C36_CachedSlotIsASlot ==
    (zbCall.op \in {"set_nd_filter", "move_zaber_axis", "go_home", "get_current_slot"}
       /\ zbCall.status = "ok") =>
        \/ zbPosition \in {"HOME", "UNKNOWN"}
        \/ /\ zbPosition \in DOMAIN MASK_MAP
           /\ Abs(zbStage - MASK_MAP[zbPosition]) < SlotTolerance

\* C37: when take_exposure has returned normally the shutter has been commanded
\* closed: its object is in ON, the state activate() leaves once the closing
\* level is written; and the shutter is commanded open (OFF) only between the
\* opening and the closing call of a light exposure.
C37_ShutterClosedOnReturn ==
    /\ (stack = <<>> /\ reqs > 0 /\ Len(trace) > 0 /\ Last(trace).ev = "commit")
           => shutterState = "on"
    /\ shutterState = "off" =>
           (stack # <<>> /\ ~Top.is_dark /\ Top.pc \in {"arm", "sleep", "close"})

\* C38: the cached state of the shutter object and of every flip-mount object
\* is the level last written to its line: ON when the line is low, OFF when
\* it is high.
C38_CachedStateIsLineLevel ==
    \A obj \in SharedObjects :
        /\ SharedState(obj) = "on" => slLine = 0
        /\ SharedState(obj) = "off" => slLine = 1

C40_SlewOnlyAfterBothAccepted ==
    LET sent(c) == \E i \in 1..Len(mountCmds) : mountCmds[i] = c
        refused == \E i \in 1..Len(mountAcks) : i <= 2 /\ mountAcks[i] # "1"
    IN  /\ sent("MSS") =>
              /\ Len(mountAcks) >= 2 /\ mountAcks[1] = "1" /\ mountAcks[2] = "1"
              /\ \E i, j, k \in 1..Len(mountCmds) :
                     /\ i < j /\ j < k
                     /\ mountCmds[i] = "Sa" /\ mountCmds[j] = "Sz" /\ mountCmds[k] = "MSS"
        /\ refused =>
              /\ ~sent("MSS")
              /\ gotoResult.status \in {"RuntimeError", "TimeoutError"}

\* The altitude was accepted, the azimuth refused, and the call raised.
C40_Witness ==
    /\ mountAcks = <<"1", "0">>
    /\ gotoResult.status = "RuntimeError"
    /\ mountCmds = <<"GAC", "GLS", "GAL", "Sa", "Sz">>

====
